---- MODULE Spec2Model ----
(***************************************************************************)
(* Model of the iobs experiment engine (package iobs.config): the nested   *)
(* permutation loop of WorkloadConfiguration.process, the template and     *)
(* environment permutation generators, the bounded retry loop of           *)
(* _try_process, Job.process and the row writer of OutputConfiguration.    *)
(* Spec is the run of one input file; SpecValidate is one call of          *)
(* ConfigSectionBase.validate on a section; SpecOutput is the sequence of  *)
(* OutputConfiguration.process calls of one workload, over more output     *)
(* sections and metric maps than Spec takes; SpecExecute is the loop of    *)
(* execute over the input files; SpecConfiguration is a caller's sequence  *)
(* save_device_environments, process, restore_device_environments;         *)
(* SpecProcess is the process registry under Job.process, the retry loop   *)
(* and the signal handler; SpecValidateTables is validate on setting       *)
(* tables with chains, joins and cycles of dependencies.                   *)
(*                                                                         *)
(* Reading of two places where the files of the repository disagree:       *)
(*  - workloads.py:146-147 holds two consecutive except headers, the first *)
(*    without a body.  Both headers together, and the second alone, catch  *)
(*    JobExecutionError and OutputParsingError; that is what is modelled.  *)
(*  - workloads.py:145 calls job.process() while jobs.py:57 declares       *)
(*    process(self, use_blktrace); the argument is taken to be the         *)
(*    enable_blktrace setting of the global section (globals.py:80).       *)
(***************************************************************************)
EXTENDS Integers, Sequences, FiniteSets, TLC

VARIABLES
    cfg,        \* the validated configuration of one input file
    pc,         \* position of Configuration.process / WorkloadConfiguration.process
    wi,         \* index of the workload configuration being processed
    ds,         \* index into itertools.product(devices, schedulers)
    ti,         \* items the template generator has yielded for this (device, scheduler)
    ei,         \* items the environment generator has yielded for this template permutation
    rep,        \* repetitions completed under this environment permutation
    retry,      \* attempts made for the current job
    err,        \* the exception that left process, "none" while there is none
    dev,        \* kernel state of every device: scheduler and nomerges
    tempFile,   \* TRUE while the interpolated file <file>__temp__ exists
    nmLast,     \* per device: the value of the most recent change_nomerges call
    nmCalls,    \* number of change_nomerges calls made
    jobs,       \* the jobs started so far (first attempt of each), in order
    attempts,   \* Job objects constructed and processed for the current job
    outcome,    \* result of the latest Job.process of the current job, "none" before it
    mutationFailed, \* TRUE once a change_scheduler or change_nomerges command returned non-zero
    wrote_header, \* OutputConfiguration._wrote_header
    header_order, \* OutputConfiguration.header_order
    file,       \* the lines of the output CSV file
    tempOps,    \* number of creations and removals of the file <file>__temp__
    calls,      \* number of OutputConfiguration.process calls made on the object
    call,       \* the arguments of the latest OutputConfiguration.process call
    section,    \* ConfigSectionBase.validate: the section being validated
    given,      \* per setting: the attribute value add_setting left before validate
    attr,       \* per setting: the attribute value now
    default_used, \* per setting: ConfigAttribute.default_used
    roots,      \* validate: the set roots
    unvalidated, \* validate: the set unvalidated
    out_deps,   \* validate: the dict out_deps
    visited,    \* the settings passed to _validate_setting, in order
    validator_calls, \* the validation_fn calls made: setting, value, default_used
    verr,       \* the InvalidSettingError validate raised, its kind and setting
    vpc,        \* position of validate: "loop", "done" or "raised"
    args,       \* execute: the parsed command line, inputs and reset_device
    continue_on_failure, \* SettingsManager.get('continue_on_failure')
    input_i,    \* execute: index of the input file of the for loop
    epc,        \* execute: position in the body of the for loop
    exc,        \* execute: the exception in flight, "none" while there is none
    configuration, \* execute: the input file the local configuration was parsed from, 0 while unbound
    sysfs,      \* the scheduler and nomerges the kernel holds for every device
    device_environments, \* Configuration._device_environments
    log,        \* per input file started: what execute did for it
    logged,     \* the errors execute printed before continuing
    PROCESSES,  \* ProcessManager.PROCESSES: the CommandProcess entries, in order
    running,    \* the pids of the child processes that have not finished
    jpc,        \* position of _try_process and Job.process
    bp,         \* Job.process: the pid of the blktrace process, 0 before run_blktrace
    fg,         \* run_command: the pid of the child being waited for, 0 when there is none
    next_pid,   \* the pid the next Popen gets
    job_no,     \* the jobs started
    job_attempt, \* _try_process: iterations of the retry loop begun for this job
    use_blktrace, \* the argument of Job.process
    killpg_sent, \* the pids os.killpg was called for
    exit_status, \* the status of sys.exit, -1 while the program runs
    job,        \* the device and scheduler of the Job being processed
    kernel,     \* per device: the scheduler in effect, and whether the caches were cleared since it was set
    attempt_steps, \* the steps this Job.process call has begun, in order
    outputs,    \* what the commands of this Job.process call returned, in order
    job_err     \* the exception that left this Job.process call, "none" while there is none

(* The state of the experiment engine and of its OutputConfiguration *)
engineVars == <<cfg, pc, wi, ds, ti, ei, rep, retry, err, dev, tempFile, nmLast, nmCalls,
                jobs, attempts, outcome, mutationFailed, wrote_header, header_order, file,
                tempOps>>

(* The arguments of the OutputConfiguration.process calls *)
outVars == <<calls, call>>

(* The state of one ConfigSectionBase.validate call *)
valVars == <<section, given, attr, default_used, roots, unvalidated, out_deps,
             visited, validator_calls, verr, vpc>>

(* The state of execute and of the Configuration of the current input file *)
execVars == <<args, continue_on_failure, input_i, epc, exc, configuration, sysfs,
              device_environments, log, logged>>

(* The process registry, the child processes and the job that spawns them *)
procVars == <<PROCESSES, running, jpc, bp, fg, next_pid, job_no, job_attempt,
              use_blktrace, killpg_sent, exit_status, job, kernel, attempt_steps,
              outputs, job_err>>

vars == <<engineVars, outVars, valVars, execVars, procVars>>

----------------------------------------------------------------------------
(* Bounds of the model *)
MaxDevices == 2
MaxSchedulers == 2
MaxRepetitions == 2
MaxRetryCount == 3
NegativeRetryCounts == 1
MaxWorkloads == 2
MaxValues == 2
MaxNomerges == 2
MaxInputs == 2
MaxMutations == 2
MaxJobs == 2
MaxPids == 10
RetryCount == 2

DevicePool == <<"/dev/sdb", "/dev/sda", "/dev/sdc">>
SchedulerPool == <<"noop", "deadline", "cfq">>
ParamValues == [a |-> <<"1", "2", "3">>, b |-> <<"x", "y", "z">>]
WorkloadPool == <<"wl1", "wl2", "wl3">>
WorkloadFile == "job.fio"
None == "None"

Min(a, b) == IF a < b THEN a ELSE b

----------------------------------------------------------------------------
(* itertools.product over lists: tuples  in lexicographic order of the      *)
(* positions, the last list varying fastest; product() of no list is one    *)
(* empty tuple, and a product with an empty list is empty.                  *)
RECURSIVE Product(_)
Product(lists) ==
    IF lists = <<>> THEN << <<>> >>
    ELSE LET head == Head(lists)
             rest == Product(Tail(lists))
         IN  [k \in 1..(Len(head) * Len(rest)) |->
                 <<head[((k - 1) \div Len(rest)) + 1]>>
                     \o rest[((k - 1) % Len(rest)) + 1]]

(* '{}={}'.format(setting, value) and its inverse setting.split('='): a     *)
(* setting string is kept as the pair of the two sides of the '='.          *)
FormatSetting(name, value) == <<name, value>>
SettingName(setting) == setting[1]
SettingValue(setting) == setting[2]

(* str(int) for the nomerges values, and the kernel's reading of the text   *)
(* echoed into /sys/block/<dev>/queue/nomerges.                             *)
IntToStr(n) == CASE n = 0 -> "0" [] n = 1 -> "1" [] n = 2 -> "2"
StrToInt(s) == CASE s = "0" -> 0 [] s = "1" -> 1 [] s = "2" -> 2

(* itertools.product(devices, schedulers) of WorkloadConfiguration.process *)
DeviceSchedulerProduct(c) == Product(<<c.devices, c.schedulers>>)

(* ConfigSectionBase._validate_setting for the nomerges setting: an unset   *)
(* value is replaced by the default [0] and default_used is set.  The       *)
(* attribute is <<>> when add_setting never set it and <<list>> otherwise.  *)
NomergesDefault == <<0>>
ValidateNomerges(attribute) ==
    IF attribute = <<>>
    THEN [nomerges |-> NomergesDefault, default_used |-> TRUE]
    ELSE [nomerges |-> attribute[1], default_used |-> FALSE]

(* EnvironmentConfiguration._get_permutate_settings *)
PermutateSettings == <<"nomerges">>

(* EnvironmentConfiguration._get_setting_permutations *)
EnvSettingPermutations(env) ==
    LET used == SelectSeq(PermutateSettings, LAMBDA s : ~env.default_used)
        setting_perm == [i \in 1..Len(used) |->
                            [j \in 1..Len(env.nomerges) |->
                                FormatSetting(used[i], IntToStr(env.nomerges[j]))]]
    IN  Product(setting_perm)

(* EnvironmentConfiguration.get_environment_permutations: the sequence of   *)
(* tuples the generator yields.  The else belongs to the for statement      *)
(* (environments.py:64-68): when enabled the loop, which never breaks, is   *)
(* followed by one more yield of the empty tuple; when not enabled the      *)
(* generator yields nothing.                                                *)
EnvironmentPermutations(env) ==
    IF env.enabled
    THEN EnvSettingPermutations(env) \o << <<>> >>
    ELSE <<>>

(* The number of leading items of EnvironmentPermutations that pass through *)
(* modify_environment before they are yielded (environments.py:65).         *)
EnvModifiedCount(env) ==
    IF env.enabled THEN Len(EnvSettingPermutations(env)) ELSE 0

(* Variant of TemplateSettingPermutations: the value lists are paired      *)
(* position by position instead of multiplied.                              *)
TemplateSettingPermutationsZipped(tmpl) ==
    LET shortest == IF tmpl.dynamic = <<>> THEN 1
                    ELSE CHOOSE n \in {Len(tmpl.values[tmpl.dynamic[i]]) : i \in 1..Len(tmpl.dynamic)} :
                            \A i \in 1..Len(tmpl.dynamic) : n <= Len(tmpl.values[tmpl.dynamic[i]])
    IN  [j \in 1..shortest |->
            [i \in 1..Len(tmpl.dynamic) |->
                FormatSetting(tmpl.dynamic[i], tmpl.values[tmpl.dynamic[i]][j])]]

(* TemplateConfiguration._get_setting_permutations: the product over the    *)
(* dynamic settings in the iteration order of the set _dynamic_settings.    *)
TemplateSettingPermutations(tmpl) ==
    Product([i \in 1..Len(tmpl.dynamic) |->
                [j \in 1..Len(tmpl.values[tmpl.dynamic[i]]) |->
                    FormatSetting(tmpl.dynamic[i], tmpl.values[tmpl.dynamic[i]][j])]])

(* Variant of FilePermutations: the file is interpolated whether or not the *)
(* section is enabled.                                                      *)
FilePermutationsAlwaysInterpolated(tmpl) ==
    LET sps == TemplateSettingPermutations(tmpl)
    IN  [i \in 1..Len(sps) |-> <<"job.fio__temp__", sps[i]>>]

(* TemplateConfiguration.get_file_permutations: the (file, permutation)     *)
(* pairs the generator yields when the file exists.                         *)
FilePermutations(tmpl) ==
    IF tmpl.enabled
    THEN LET sps == TemplateSettingPermutations(tmpl)
         IN  [i \in 1..Len(sps) |-> <<"job.fio__temp__", sps[i]>>]
    ELSE << <<WorkloadFile, <<>> >> >>


----------------------------------------------------------------------------
(* OutputConfiguration (FIO): header resolution and row writing.  A line of *)
(* the file is the sequence of its comma-terminated fields; a complete line *)
(* ends with the field END.                                                 *)

(* The order of the strings that sorted() is applied to *)
NameOrder == <<"a", "b", "nomerges">>

(* OutputConfiguration._get_permutation_order *)
PermutationOrder(sp) ==
    SelectSeq(NameOrder, LAMBDA n : n \in {SettingName(sp[i]) : i \in 1..Len(sp)})

(* OutputConfiguration._get_permutation_setting_dict: later pairs overwrite *)
PermutationSettingDict(sp) ==
    [n \in {SettingName(sp[i]) : i \in 1..Len(sp)} |->
        LET last == CHOOSE i \in 1..Len(sp) :
                        /\ SettingName(sp[i]) = n
                        /\ \A j \in (i + 1)..Len(sp) : SettingName(sp[j]) # n
        IN  SettingValue(sp[last])]

(* FIOOutputConfiguration._get_format_translation, on the tokens used here  *)
FormatTranslation ==
    [t \in {"run", "opr", "job-runtime", "iops-read"} |->
        CASE t = "run" -> "job-runtime"
          [] t = "opr" -> "iops-read"
          [] OTHER -> t]

(* OutputConfiguration._get_universal_format_translation *)
UniversalTranslation ==
    [t \in {"w", "d", "s", "workload", "device", "scheduler"} |->
        CASE t = "w" -> "workload"
          [] t = "d" -> "device"
          [] t = "s" -> "scheduler"
          [] OTHER -> t]

(* _get_lat_percentile_format_translation, _get_clat_percentile_format_translation *)
LatPercentileTokens == {"lpr", "lpw", "lat-percentile-read", "lat-percentile-write"}
ClatPercentileTokens == {"cpr", "cpw", "clat-percentile-read", "clat-percentile-write"}

(* The percentile keys FIOJob._parse_job_rw builds: the key, the name that  *)
(* joins parts 0, 1 and 3 of key.split('-'), and the rank of float(part 2). *)
PercentileKeys ==
    << [key |-> "clat-percentile-50.000000-read", name |-> "clat-percentile-read", rank |-> 50],
       [key |-> "clat-percentile-99.000000-read", name |-> "clat-percentile-read", rank |-> 99],
       [key |-> "lat-percentile-99.000000-read", name |-> "lat-percentile-read", rank |-> 99] >>

(* FIOOutputConfiguration._get_percentile_order, then                       *)
(* _compare_percentile_format(fi, p) for each p                             *)
PercentileColumns(fi, output) ==
    LET po == SelectSeq(PercentileKeys, LAMBDA p : p.key \in DOMAIN output)
        lp == SelectSeq(po, LAMBDA p : fi = p.name)
    IN  [i \in 1..Len(lp) |-> lp[i].key]

(* One step of the format loop of _write_header (outputs.py:560-594): the   *)
(* columns a token adds to header_order, the fields it writes to the file,  *)
(* and the exception it raises.  A permutation dict is None when its append *)
(* flag is off; the test "fi in None" raises TypeError.                     *)
ResolveToken(fi, output, o, tsp, esp) ==
    IF fi \in DOMAIN FormatTranslation
    THEN [cols |-> <<FormatTranslation[fi]>>, fields |-> <<FormatTranslation[fi]>>, err |-> "none"]
    ELSE IF fi \in DOMAIN UniversalTranslation
    THEN [cols |-> <<UniversalTranslation[fi]>>, fields |-> <<UniversalTranslation[fi]>>, err |-> "none"]
    ELSE IF fi \in LatPercentileTokens
    THEN IF o.include_lat_percentile
         THEN LET lp == PercentileColumns(fi, output)
              IN  [cols |-> lp, fields |-> IF lp = <<>> THEN <<"">> ELSE lp, err |-> "none"]
         ELSE [cols |-> <<>>, fields |-> <<>>, err |-> "none"]
    ELSE IF fi \in ClatPercentileTokens
    THEN IF o.include_clat_percentile
         THEN LET cp == PercentileColumns(fi, output)
              IN  [cols |-> cp, fields |-> IF cp = <<>> THEN <<"">> ELSE cp, err |-> "none"]
         ELSE [cols |-> <<>>, fields |-> <<>>, err |-> "none"]
    ELSE IF ~o.append_template
    THEN [cols |-> <<>>, fields |-> <<>>, err |-> "TypeError"]
    ELSE IF fi \in DOMAIN PermutationSettingDict(tsp)
    THEN [cols |-> <<fi>>, fields |-> <<fi>>, err |-> "none"]
    ELSE IF ~o.append_environment
    THEN [cols |-> <<>>, fields |-> <<>>, err |-> "TypeError"]
    ELSE IF fi \in DOMAIN PermutationSettingDict(esp)
    THEN [cols |-> <<fi>>, fields |-> <<fi>>, err |-> "none"]
    ELSE [cols |-> <<>>, fields |-> <<>>, err |-> "OutputFormatError"]

(* FIOOutputConfiguration._write_header: the format loop stops at the first *)
(* token that raises, leaving the fields written so far in the file.        *)
RECURSIVE WriteHeaderFormat(_, _, _, _, _, _)
WriteHeaderFormat(fmt, acc, output, o, tsp, esp) ==
    IF fmt = <<>> THEN acc
    ELSE LET r == ResolveToken(Head(fmt), output, o, tsp, esp)
         IN  IF r.err # "none"
             THEN [acc EXCEPT !.err = r.err]
             ELSE WriteHeaderFormat(Tail(fmt),
                      [cols |-> acc.cols \o r.cols, fields |-> acc.fields \o r.fields,
                       err |-> "none"],
                      output, o, tsp, esp)

WriteHeader(output, o, tsp, esp) ==
    LET f == WriteHeaderFormat(o.format, [cols |-> <<>>, fields |-> <<>>, err |-> "none"],
                               output, o, tsp, esp)
        t == IF o.append_template THEN PermutationOrder(tsp) ELSE <<>>
        e == IF o.append_environment THEN PermutationOrder(esp) ELSE <<>>
    IN  IF f.err # "none"
        THEN [header |-> <<>>, line |-> f.fields, err |-> f.err]
        ELSE [header |-> f.cols \o t \o e,
              line |-> f.fields \o t \o e \o <<"END">>, err |-> "none"]

(* A number of the metric map: an int of the fio JSON has no fraction       *)
(* digits, a float has the digits of its repr after the point.             *)
Number(whole, frac) == [whole |-> whole, frac |-> frac]

RECURSIVE Digits(_)
Digits(digits) ==
    IF digits = <<>> THEN "" ELSE ToString(Head(digits)) \o Digits(Tail(digits))

(* str(x) of a number, as _write_line applies it (outputs.py:630) *)
PyStr(v) ==
    IF v.frac = <<>> THEN ToString(v.whole)
    ELSE ToString(v.whole) \o "." \o Digits(v.frac)

(* FIOOutputConfiguration._write_line: one field per column of header_order *)
(* from the first of output, universal_metrics, template_spd and            *)
(* environment_spd that has it; a column none has raises OutputFormatError  *)
(* after the fields before it were written.                                 *)
LineField(fi, output, universal, o, tsp, esp) ==
    IF fi \in DOMAIN output THEN [field |-> PyStr(output[fi]), err |-> "none"]
    ELSE IF fi \in DOMAIN universal THEN [field |-> universal[fi], err |-> "none"]
    ELSE IF ~o.append_template THEN [field |-> "", err |-> "TypeError"]
    ELSE IF fi \in DOMAIN PermutationSettingDict(tsp)
    THEN [field |-> PermutationSettingDict(tsp)[fi], err |-> "none"]
    ELSE IF ~o.append_environment THEN [field |-> "", err |-> "TypeError"]
    ELSE IF fi \in DOMAIN PermutationSettingDict(esp)
    THEN [field |-> PermutationSettingDict(esp)[fi], err |-> "none"]
    ELSE [field |-> "", err |-> "OutputFormatError"]

RECURSIVE WriteLineFields(_, _, _, _, _, _, _)
WriteLineFields(order, acc, output, universal, o, tsp, esp) ==
    IF order = <<>> THEN [line |-> acc \o <<"END">>, err |-> "none"]
    ELSE LET r == LineField(Head(order), output, universal, o, tsp, esp)
         IN  IF r.err # "none"
             THEN [line |-> acc, err |-> r.err]
             ELSE WriteLineFields(Tail(order), Append(acc, r.field),
                                  output, universal, o, tsp, esp)

WriteLine(order, output, universal, o, tsp, esp) ==
    WriteLineFields(order, <<>>, output, universal, o, tsp, esp)

(* universal_metrics of OutputConfiguration.process (outputs.py:140-144) *)
UniversalMetrics(workload, device, scheduler) ==
    [k \in {"workload", "device", "scheduler"} |->
        CASE k = "workload" -> workload
          [] k = "device" -> device
          [] k = "scheduler" -> scheduler]

(* Variant of AppendRow: the file is opened with 'w' for the row *)
AppendRowTruncating(f, line) == <<line>>

(* open(output_file, 'a') and the writes of one row (outputs.py:627-644) *)
AppendRow(f, line) == Append(f, line)

(* Variant of ProcessCall: the header is resolved and written by every call *)
ProcessCallRewritesHeader(wh, ho, f, o, output, universal, tsp, esp) ==
    LET h == WriteHeader(output, o, tsp, esp)
    IN  IF h.err # "none"
        THEN [wrote_header |-> wh, header_order |-> ho, file |-> <<h.line>>, err |-> h.err]
        ELSE LET l == WriteLine(h.header, output, universal, o, tsp, esp)
             IN  [wrote_header |-> TRUE, header_order |-> h.header,
                  file |-> IF wh THEN f \o <<h.line, l.line>> ELSE <<h.line, l.line>>,
                  err |-> l.err]

(* OutputConfiguration.process (outputs.py:114-154) on an object with       *)
(* _wrote_header = wh, header_order = ho and output file f: the header is   *)
(* written by the first call, into a file opened with 'w+', and            *)
(* _wrote_header is set when _write_header returns; the line follows.       *)
ProcessCall(wh, ho, f, o, output, universal, tsp, esp) ==
    LET h == IF wh
             THEN [header |-> ho, line |-> <<>>, err |-> "none"]
             ELSE WriteHeader(output, o, tsp, esp)
        withHeader == IF wh THEN f ELSE <<h.line>>
    IN  IF h.err # "none"
        THEN [wrote_header |-> wh, header_order |-> ho, file |-> withHeader, err |-> h.err]
        ELSE LET l == WriteLine(h.header, output, universal, o, tsp, esp)
             IN  [wrote_header |-> TRUE, header_order |-> h.header,
                  file |-> AppendRow(withHeader, l.line), err |-> l.err]

(* The metric map FIOJob.collect_output returns: job_runtime is an int, iops a float *)
FIOMetrics == [k \in {"job-runtime", "iops-read"} |->
                  IF k = "job-runtime" THEN Number(1000, <<>>) ELSE Number(250, <<5>>)]

----------------------------------------------------------------------------
(* The configurations the runs start from: every section after validate.   *)
Prefixes(pool, max) == {SubSeq(pool, 1, n) : n \in 1..Min(max, Len(pool))}

Range(q) == {q[i] : i \in 1..Len(q)}

(* The sequences without repetition over S of length at most n *)
RECURSIVE SeqsNoDup(_, _)
SeqsNoDup(S, n) ==
    IF n = 0 THEN {<<>>}
    ELSE LET shorter == SeqsNoDup(S, n - 1)
         IN  shorter \cup
             UNION {{Append(q, x) : x \in S \ Range(q)} :
                       q \in {r \in shorter : Len(r) = n - 1}}

ParamNames == {"a", "b"}

(* The template section: _dynamic_settings is a set of strings, so the      *)
(* order in which _get_setting_permutations iterates it is not fixed by the *)
(* configuration; dynamic is that order, any arrangement of the names.  A   *)
(* section that is not enabled ignores its parameters: it is taken without  *)
(* parameters or with the one parameter a.                                  *)
TemplateConfigs ==
    UNION {{[enabled |-> TRUE, dynamic |-> order,
             values |-> [p \in Range(order) |-> SubSeq(ParamValues[p], 1, n[p])]] :
               n \in [Range(order) -> 1..MaxValues]} :
           order \in SeqsNoDup(ParamNames, Cardinality(ParamNames))}
    \cup {[enabled |-> FALSE, dynamic |-> <<>>, values |-> <<>>],
          [enabled |-> FALSE, dynamic |-> <<"a">>,
           values |-> [p \in {"a"} |-> SubSeq(ParamValues[p], 1, MaxValues)]]}

(* The environment section after validate: nomerges unset, or set to the    *)
(* first values of a declared list that is not in ascending order.          *)
NomergesPool == <<2, 0, 1>>
EnvironmentConfigs ==
    {[enabled |-> en] @@ ValidateNomerges(v) :
        en \in BOOLEAN,
        v \in {<<>>} \cup {<<l>> : l \in Prefixes(NomergesPool, MaxNomerges)}}

(* The output section: the first four tokens of the default format of      *)
(* FIOOutputConfiguration._get_default_format and the defaults of the flags *)
OutputConfigs ==
    [format : {<<"workload", "device", "scheduler", "job-runtime">>},
     append_template : {TRUE},
     append_environment : {TRUE},
     include_lat_percentile : {FALSE},
     include_clat_percentile : {FALSE}]

Configs ==
    [workloads : Prefixes(WorkloadPool, MaxWorkloads),
     devices : Prefixes(DevicePool, MaxDevices),
     schedulers : Prefixes(SchedulerPool, MaxSchedulers),
     repetitions : 1..MaxRepetitions,
     retry_count : (0 - NegativeRetryCounts)..MaxRetryCount,
     file_exists : BOOLEAN,
     template : TemplateConfigs,
     environment : EnvironmentConfigs,
     output : OutputConfigs]

InitialScheduler == "cfq"

(* file_exists is FALSE when the file of the last workload configuration    *)
(* is missing: the run stops at the first get_file_permutations call of     *)
(* that workload, whatever the other sections hold; the case is taken with  *)
(* the template and environment sections enabled.                           *)
InitConfigs ==
    {c \in Configs : c.file_exists \/ (c.template.enabled /\ c.environment.enabled)}

(* No OutputConfiguration.process call was made yet *)
OutputIdle ==
    /\ calls = 0
    /\ call = <<>>

(* execute is not running *)
ExecuteIdle ==
    /\ args = <<>>
    /\ continue_on_failure = FALSE
    /\ input_i = 0
    /\ epc = "idle"
    /\ exc = "none"
    /\ configuration = 0
    /\ sysfs = <<>>
    /\ device_environments = <<>>
    /\ log = <<>>
    /\ logged = <<>>

(* No job is being processed and no child process was started *)
ProcessIdle ==
    /\ PROCESSES = <<>>
    /\ running = {}
    /\ jpc = "idle"
    /\ bp = 0
    /\ fg = 0
    /\ next_pid = 1
    /\ job_no = 0
    /\ job_attempt = 0
    /\ use_blktrace = FALSE
    /\ killpg_sent = {}
    /\ exit_status = -1
    /\ job = <<>>
    /\ kernel = <<>>
    /\ attempt_steps = <<>>
    /\ outputs = <<>>
    /\ job_err = "none"

(* No section is being validated *)
ValidateIdle ==
    /\ section = "none"
    /\ given = <<>>
    /\ attr = <<>>
    /\ default_used = <<>>
    /\ roots = {}
    /\ unvalidated = {}
    /\ out_deps = <<>>
    /\ visited = <<>>
    /\ validator_calls = <<>>
    /\ verr = [kind |-> "none", setting |-> "none"]
    /\ vpc = "idle"

Init ==
    /\ cfg \in InitConfigs
    /\ pc = "start"
    /\ wi = 0 /\ ds = 0 /\ ti = 0 /\ ei = 0 /\ rep = 0 /\ retry = 0
    /\ err = "none"
    /\ dev = [d \in Range(cfg.devices) |->
                 [scheduler |-> InitialScheduler, nomerges |-> 0]]
    /\ tempFile = FALSE
    /\ nmLast = [d \in Range(cfg.devices) |-> None]
    /\ nmCalls = 0
    /\ jobs = <<>>
    /\ attempts = 0
    /\ outcome = "none"
    /\ mutationFailed = FALSE
    /\ wrote_header = FALSE
    /\ header_order = <<>>
    /\ file = <<>>
    /\ tempOps = 0
    /\ OutputIdle
    /\ ExecuteIdle
    /\ ProcessIdle
    /\ ValidateIdle



----------------------------------------------------------------------------
(* The loop variables of WorkloadConfiguration.process *)
CurDevice == DeviceSchedulerProduct(cfg)[ds][1]
CurScheduler == DeviceSchedulerProduct(cfg)[ds][2]
CurFilePermutation == FilePermutations(cfg.template)[ti]
CurEnvPermutation == EnvironmentPermutations(cfg.environment)[ei]

(* An exception leaves WorkloadConfiguration.process: no handler in the     *)
(* loops of process and process_with_repetitions catches it.                *)
Propagate(e) ==
    /\ pc' = "raised"
    /\ err' = e

(* Variants of RetryableErrors: the except clause of the earlier revision  *)
(* (workloads.py:146), and an except clause on the base exception class.   *)
RetryableErrorsExecutionOnly == {"JobExecutionError"}
RetryableErrorsAnyClassified ==
    {"JobExecutionError", "OutputParsingError", "SchedulerChangeError"}

(* The errors the except clause of _try_process catches (workloads.py:147) *)
RetryableErrors == {"JobExecutionError", "OutputParsingError"}

(* Variant of RetryRange: the body of the loop runs once at least *)
RetryRangeAtLeastOnce(retry_count) ==
    0..(IF retry_count < 1 THEN 0 ELSE retry_count - 1)

(* Variant of RetryRange: one iteration too many *)
RetryRangeOffByOne(retry_count) == 0..retry_count

(* range(retry_count) of _try_process (workloads.py:138) *)
RetryRange(retry_count) == 0..(retry_count - 1)

(* process.change_nomerges and process.change_scheduler: the echo into the  *)
(* sysfs file sets the kernel value when it returns 0.                      *)
ChangeNomerges(d, device, nomerges) ==
    [d EXCEPT ![device].nomerges = StrToInt(nomerges)]
ChangeScheduler(d, device, scheduler) ==
    [d EXCEPT ![device].scheduler = scheduler]

(* Variant of NomergesChanges: no setting is recognised as nomerges *)
NomergesChangesNone(sp) == <<>>

(* The nomerges values modify_environment passes to change_nomerges, in     *)
(* the order of the settings of the permutation (environments.py:77-80).    *)
NomergesChanges(sp) ==
    LET nm == SelectSeq(sp, LAMBDA setting : SettingName(setting) = "nomerges")
    IN  [i \in 1..Len(nm) |-> SettingValue(nm[i])]

RECURSIVE ApplyNomerges(_, _, _)
ApplyNomerges(d, device, values) ==
    IF values = <<>> THEN d
    ELSE ApplyNomerges(ChangeNomerges(d, device, Head(values)), device, Tail(values))

(* Configuration.process (base.py:179-194): the workload type is fio, so   *)
(* change_randomize_va_space is not called; the loop over the workload     *)
(* configurations follows.                                                  *)
ConfigurationProcess ==
    /\ pc = "start"
    /\ pc' = "wc_next"
    /\ UNCHANGED <<outVars, valVars, execVars, procVars>>
    /\ UNCHANGED <<cfg, wi, ds, ti, ei, rep, retry, err, dev, tempFile, tempOps, nmLast, nmCalls,
                   jobs, attempts, outcome, mutationFailed, wrote_header, header_order, file>>

(* One step of for wc in self._workload_configurations, and lines 71-78 of *)
(* WorkloadConfiguration.process up to the first step of the product loop. *)
WorkloadProcess ==
    /\ pc = "wc_next"
    /\ IF wi < Len(cfg.workloads)
       THEN /\ wi' = wi + 1
            /\ ds' = 0
            /\ pc' = "ds_next"
       ELSE /\ pc' = "done"
            /\ UNCHANGED <<wi, ds>>
    /\ UNCHANGED <<outVars, valVars, execVars, procVars>>
    /\ UNCHANGED <<cfg, ti, ei, rep, retry, err, dev, tempFile, tempOps, nmLast, nmCalls,
                   jobs, attempts, outcome, mutationFailed, wrote_header, header_order, file>>

(* One step of for device, scheduler in itertools.product(devices, schedulers): *)
(* the next pair and a new get_file_permutations generator, or the return of process *)
NextDeviceScheduler ==
    /\ pc = "ds_next"
    /\ IF ds < Len(DeviceSchedulerProduct(cfg))
       THEN /\ ds' = ds + 1
            /\ ti' = 0
            /\ pc' = "tmpl_next"
       ELSE /\ pc' = "wc_next"
            /\ UNCHANGED <<ds, ti>>
    /\ UNCHANGED <<outVars, valVars, execVars, procVars>>
    /\ UNCHANGED <<cfg, wi, ei, rep, retry, err, dev, tempFile, tempOps, nmLast, nmCalls,
                   jobs, attempts, outcome, mutationFailed, wrote_header, header_order, file>>

(* os.path.isfile(file) for the file of workload w: file_exists is FALSE     *)
(* when the file of the last workload configuration is missing.             *)
FileExists(c, w) == c.file_exists \/ w < Len(c.workloads)

(* Variant of FileCheckedAt: the file is looked for after the first yield *)
FileCheckedLate(yielded) == yielded = 1

(* The resumption of get_file_permutations that runs the os.path.isfile     *)
(* test (templates.py:73): the first, before anything is yielded.           *)
FileCheckedAt(yielded) == yielded = 0

(* One resumption of the generator get_file_permutations (templates.py:73-84): *)
(* the existence check on the first, the removal of the temporary file of the  *)
(* previous permutation, then the next interpolated file or the end.           *)
TemplateNext ==
    /\ pc = "tmpl_next"
    /\ LET removed == IF cfg.template.enabled /\ ti >= 1 THEN 1 ELSE 0
       IN  IF FileCheckedAt(ti) /\ ~FileExists(cfg, wi)
           THEN /\ Propagate("InvalidSettingError")
                /\ UNCHANGED <<ti, ei, rep, tempFile, tempOps>>
           ELSE IF ti < Len(FilePermutations(cfg.template))
           THEN /\ ti' = ti + 1
                /\ tempFile' = cfg.template.enabled
                /\ tempOps' = tempOps + removed + (IF cfg.template.enabled THEN 1 ELSE 0)
                /\ ei' = 0
                /\ pc' = "env_next"
                /\ UNCHANGED <<err, rep>>
           ELSE /\ tempFile' = IF cfg.template.enabled THEN FALSE ELSE tempFile
                /\ tempOps' = tempOps + removed
                /\ pc' = "ds_next"
                /\ UNCHANGED <<ti, ei, err, rep>>
    /\ UNCHANGED <<outVars, valVars, execVars, procVars>>
    /\ UNCHANGED <<cfg, wi, ds, retry, dev, nmLast, nmCalls,
                   jobs, attempts, outcome, mutationFailed, wrote_header, header_order, file>>

(* One resumption of the generator get_environment_permutations            *)
(* (environments.py:63-68) with modify_environment (70-80): the next        *)
(* permutation is applied to the device and yielded; change_nomerges raises *)
(* DeviceSettingChangeError when its command returns non-zero.  failAt is   *)
(* the first change_nomerges call that fails, 0 when none does.             *)
EnvironmentNext ==
    /\ pc = "env_next"
    /\ LET perms == EnvironmentPermutations(cfg.environment)
       IN  IF ei < Len(perms)
           THEN LET sp == perms[ei + 1]
                    values == IF ei < EnvModifiedCount(cfg.environment)
                              THEN NomergesChanges(sp) ELSE <<>>
                IN  \E failAt \in 0..Len(values) :
                      LET made == IF failAt = 0 THEN values ELSE SubSeq(values, 1, failAt)
                          done == IF failAt = 0 THEN values ELSE SubSeq(values, 1, failAt - 1)
                      IN  /\ dev' = ApplyNomerges(dev, CurDevice, done)
                          /\ nmCalls' = nmCalls + Len(made)
                          /\ nmLast' = IF made = <<>> THEN nmLast
                                       ELSE [nmLast EXCEPT ![CurDevice] = made[Len(made)]]
                          /\ mutationFailed' = (mutationFailed \/ failAt # 0)
                          /\ IF failAt = 0
                             THEN /\ ei' = ei + 1
                                  /\ rep' = 0
                                  /\ pc' = "rep_next"
                                  /\ UNCHANGED err
                             ELSE /\ Propagate("DeviceSettingChangeError")
                                  /\ UNCHANGED <<ei, rep>>
           ELSE /\ pc' = "tmpl_next"
                /\ UNCHANGED <<ei, rep, err, dev, nmLast, nmCalls, mutationFailed>>
    /\ UNCHANGED <<outVars, valVars, execVars, procVars>>
    /\ UNCHANGED <<cfg, wi, ds, ti, retry, tempFile, tempOps,
                   jobs, attempts, outcome, wrote_header, header_order, file>>

(* One step of for rep in range(repetitions) (workloads.py:111): the call   *)
(* of _try_process for the next repetition, or the return to process.       *)
RepetitionNext ==
    /\ pc = "rep_next"
    /\ IF rep < cfg.repetitions
       THEN /\ pc' = "try"
            /\ retry' = 0
            /\ attempts' = 0
            /\ outcome' = "none"
       ELSE /\ pc' = "env_next"
            /\ UNCHANGED <<retry, attempts, outcome>>
    /\ UNCHANGED <<outVars, valVars, execVars, procVars>>
    /\ UNCHANGED <<cfg, wi, ds, ti, ei, rep, err, dev, tempFile, tempOps, nmLast, nmCalls,
                   jobs, mutationFailed, wrote_header, header_order, file>>

(* The record of a started job: its position in the nesting and its values *)
JobRecord ==
    [wi |-> wi,
     di |-> ((ds - 1) \div Len(cfg.schedulers)) + 1,
     si |-> ((ds - 1) % Len(cfg.schedulers)) + 1,
     ti |-> ti, ei |-> ei, rep |-> rep,
     workload |-> cfg.workloads[wi], device |-> CurDevice, scheduler |-> CurScheduler,
     file |-> CurFilePermutation[1],
     tsp |-> CurFilePermutation[2], esp |-> CurEnvPermutation]

(* The results of one Job.process (jobs.py:57-80): change_scheduler raises  *)
(* SchedulerChangeError; after it and clear_caches, execute and the tracing *)
(* steps raise JobExecutionError or OutputParsingError, or the metric map   *)
(* is returned.                                                             *)
JobOutcomes == {"ok", "JobExecutionError", "OutputParsingError", "SchedulerChangeError"}

(* One iteration of the retry loop of _try_process (workloads.py:138-149):  *)
(* a fresh Job is constructed and processed.                                *)
TryProcess ==
    /\ pc = "try"
    /\ retry \in RetryRange(cfg.retry_count)
    /\ attempts' = attempts + 1
    /\ jobs' = IF attempts = 0 THEN Append(jobs, JobRecord) ELSE jobs
    /\ \E result \in JobOutcomes :
         /\ outcome' = result
         /\ mutationFailed' = (mutationFailed \/ result = "SchedulerChangeError")
         /\ dev' = IF result = "SchedulerChangeError" THEN dev
                   ELSE ChangeScheduler(dev, CurDevice, CurScheduler)
         /\ IF result = "ok"
            THEN /\ pc' = "output"
                 /\ UNCHANGED <<retry, err>>
            ELSE IF result \in RetryableErrors
            THEN /\ retry' = retry + 1
                 /\ UNCHANGED <<pc, err>>
            ELSE /\ Propagate(result)
                 /\ UNCHANGED retry
    /\ UNCHANGED <<outVars, valVars, execVars, procVars>>
    /\ UNCHANGED <<cfg, wi, ds, ti, ei, rep, tempFile, tempOps, nmLast, nmCalls,
                   wrote_header, header_order, file>>

(* Variant of RetryCountExceeded: the error is recorded and the job is      *)
(* skipped, the repetition loop going on with the next repetition.          *)
RetryCountExceededSkipsJob ==
    /\ pc = "try"
    /\ retry \notin RetryRange(cfg.retry_count)
    /\ err' = "RetryCountExceededError"
    /\ rep' = rep + 1
    /\ pc' = "rep_next"
    /\ UNCHANGED <<outVars, valVars, execVars, procVars>>
    /\ UNCHANGED <<cfg, wi, ds, ti, ei, retry, dev, tempFile, tempOps, nmLast, nmCalls,
                   jobs, attempts, outcome, mutationFailed, wrote_header, header_order, file>>

(* The end of the retry loop (workloads.py:151-153) *)
RetryCountExceeded ==
    /\ pc = "try"
    /\ retry \notin RetryRange(cfg.retry_count)
    /\ Propagate("RetryCountExceededError")
    /\ UNCHANGED <<outVars, valVars, execVars, procVars>>
    /\ UNCHANGED <<cfg, wi, ds, ti, ei, rep, retry, dev, tempFile, tempOps, nmLast, nmCalls,
                   jobs, attempts, outcome, mutationFailed, wrote_header, header_order, file>>

(* OutputConfiguration.process (outputs.py:114-154) called with the metric  *)
(* map of the successful attempt (workloads.py:117-119).                    *)
OutputProcess ==
    /\ pc = "output"
    /\ LET tsp == CurFilePermutation[2]
           esp == CurEnvPermutation
           universal == UniversalMetrics(cfg.workloads[wi], CurDevice, CurScheduler)
           r == ProcessCall(wrote_header, header_order, file, cfg.output,
                            FIOMetrics, universal, tsp, esp)
       IN  /\ wrote_header' = r.wrote_header
           /\ header_order' = r.header_order
           /\ file' = r.file
           /\ calls' = calls + 1
           /\ call' = [output |-> FIOMetrics, universal |-> universal,
                       tsp |-> tsp, esp |-> esp]
           /\ IF r.err # "none"
              THEN /\ Propagate(r.err)
                   /\ UNCHANGED rep
              ELSE /\ rep' = rep + 1
                   /\ pc' = "rep_next"
                   /\ UNCHANGED err
    /\ UNCHANGED <<valVars, execVars, procVars>>
    /\ UNCHANGED <<cfg, wi, ds, ti, ei, retry, dev, tempFile, tempOps, nmLast, nmCalls,
                   jobs, attempts, outcome, mutationFailed>>

Next ==
    \/ ConfigurationProcess
    \/ WorkloadProcess
    \/ NextDeviceScheduler
    \/ TemplateNext
    \/ EnvironmentNext
    \/ RepetitionNext
    \/ TryProcess
    \/ RetryCountExceeded
    \/ OutputProcess

Spec == Init /\ [][Next]_vars


----------------------------------------------------------------------------
(* ConfigSectionBase.validate (base.py:75-118) and _validate_setting         *)
(* (base.py:120-145) on the sections of a configuration.                    *)

(* _get_settings of the sections: for every setting whether a default_value *)
(* is declared, whether its validation_fn can return False, and its         *)
(* dependent_attributes (globals.py:56-84, workloads.py:155-163,            *)
(* environments.py:110-126, templates.py:151-162, outputs.py:185-204 and    *)
(* 520-531).                                                                *)
SectionSettings ==
    [global |->
        [workload_type |-> [default |-> FALSE, rejects |-> TRUE, deps |-> {}],
         devices |-> [default |-> FALSE, rejects |-> TRUE, deps |-> {}],
         schedulers |-> [default |-> FALSE, rejects |-> TRUE, deps |-> {"devices"}],
         repetitions |-> [default |-> TRUE, rejects |-> TRUE, deps |-> {}],
         enable_blktrace |-> [default |-> TRUE, rejects |-> FALSE, deps |-> {}]],
     workload |->
        [file |-> [default |-> FALSE, rejects |-> FALSE, deps |-> {}]],
     environment |->
        [enabled |-> [default |-> TRUE, rejects |-> FALSE, deps |-> {}],
         nomerges |-> [default |-> TRUE, rejects |-> TRUE, deps |-> {}]],
     template |->
        [enabled |-> [default |-> TRUE, rejects |-> FALSE, deps |-> {}]],
     output |->
        [format |-> [default |-> TRUE, rejects |-> FALSE, deps |-> {}],
         append_template |-> [default |-> TRUE, rejects |-> FALSE, deps |-> {}],
         append_environment |-> [default |-> TRUE, rejects |-> FALSE, deps |-> {}],
         include_lat_percentile |-> [default |-> TRUE, rejects |-> FALSE, deps |-> {}],
         include_clat_percentile |-> [default |-> TRUE, rejects |-> FALSE, deps |-> {}]]]

(* Setting tables of further ConfigSectionBase subclasses, over the         *)
(* settings p, q, r and t, each with a default_value and a validation_fn    *)
(* that can return False: a chain, a diamond, a cycle beside a root, a      *)
(* self-dependency with a setting that depends on it, and a cycle alone.    *)
Declared(deps) == [default |-> TRUE, rejects |-> TRUE, deps |-> deps]

TestTables ==
    [chain |->
        [p |-> Declared({}), q |-> Declared({"p"}), r |-> Declared({"q"})],
     diamond |->
        [p |-> Declared({}), q |-> Declared({"p"}), r |-> Declared({"p"}),
         t |-> Declared({"q", "r"})],
     cycle |->
        [p |-> Declared({}), q |-> Declared({"r"}), r |-> Declared({"q"})],
     stuck |->
        [p |-> Declared({}), q |-> Declared({"q"}), r |-> Declared({"p", "q"}),
         t |-> Declared({"p"})],
     rootless |->
        [p |-> Declared({"q"}), q |-> Declared({"p"})]]

(* self._settings of a section *)
SettingTable(sec) ==
    IF sec \in DOMAIN SectionSettings THEN SectionSettings[sec] ELSE TestTables[sec]

SettingNames(sec) == DOMAIN SettingTable(sec)

(* The attribute values add_setting can leave: "unset" is None, "set" a     *)
(* value the validation_fn accepts, "bad" a value it rejects.  "default" is *)
(* the default_value, which every declared validation_fn accepts.           *)
GivenValues(sec) ==
    [s \in SettingNames(sec) |->
        IF SettingTable(sec)[s].rejects THEN {"unset", "set", "bad"}
        ELSE {"unset", "set"}]

(* Variant of Roots: every setting is a root *)
RootsAllSettings(sec) == SettingNames(sec)

(* roots, unvalidated, inc_deps and out_deps as validate builds them        *)
(* (base.py:82-100)                                                         *)
Roots(sec) == {k \in SettingNames(sec) : SettingTable(sec)[k].deps = {}}
Unvalidated(sec) == {k \in SettingNames(sec) : SettingTable(sec)[k].deps # {}}
IncDeps(sec, s) == {k \in SettingNames(sec) : s \in SettingTable(sec)[k].deps}
OutDeps(sec) == [k \in Unvalidated(sec) |-> SettingTable(sec)[k].deps]

(* Variant of ReleasedBy: no dependent becomes a root *)
ReleasedByNone(sec, setting_name, od) == {}

(* Variant of ReleasedBy: every dependent becomes a root, whatever it still *)
(* waits for                                                                *)
ReleasedByEveryDependent(sec, setting_name, od) == IncDeps(sec, setting_name)

(* The dependents of setting_name whose out_deps entry becomes empty when   *)
(* setting_name is removed from it: they are deleted from out_deps and      *)
(* unvalidated and added to roots (base.py:107-112).                        *)
ReleasedBy(sec, setting_name, od) ==
    {d \in IncDeps(sec, setting_name) \cap DOMAIN od : od[d] \ {setting_name} = {}}

(* Variant of ValidationFn: a validator that accepts every value *)
ValidationFnAccepts(sec, s, value) == TRUE

(* setting.validation_fn(setting_value) *)
ValidationFn(sec, s, value) == value # "bad"

(* Variant of ValidateSetting: an unset value goes to the validator as it is *)
ValidateSettingNoDefault(sec, s, value, du) ==
    [value |-> value, default_used |-> du, called |-> TRUE,
     err |-> IF ValidationFn(sec, s, value) THEN "none" ELSE "invalid"]

(* _validate_setting (base.py:120-145): the value the attribute holds       *)
(* afterwards, default_used, whether validation_fn was called, and the kind *)
(* of InvalidSettingError raised.                                           *)
ValidateSetting(sec, s, value, du) ==
    LET st == SettingTable(sec)[s]
    IN  IF value = "unset" /\ ~st.default
        THEN [value |-> value, default_used |-> du, called |-> FALSE, err |-> "required"]
        ELSE LET setting_value == IF value = "unset" THEN "default" ELSE value
             IN  [value |-> setting_value,
                  default_used |-> (du \/ value = "unset"),
                  called |-> TRUE,
                  err |-> IF ValidationFn(sec, s, setting_value) THEN "none" ELSE "invalid"]

(* The engine is not running while a section is validated *)
EngineIdle ==
    /\ cfg = <<>>
    /\ pc = "idle"
    /\ wi = 0 /\ ds = 0 /\ ti = 0 /\ ei = 0 /\ rep = 0 /\ retry = 0
    /\ err = "none"
    /\ dev = <<>>
    /\ tempFile = FALSE
    /\ tempOps = 0
    /\ nmLast = <<>>
    /\ nmCalls = 0
    /\ jobs = <<>>
    /\ attempts = 0
    /\ outcome = "none"
    /\ mutationFailed = FALSE
    /\ wrote_header = FALSE
    /\ header_order = <<>>
    /\ file = <<>>

(* validate of one section, entered with the attributes add_setting left,   *)
(* at the head of its while loop (base.py:102)                              *)
InitValidate ==
    /\ EngineIdle
    /\ OutputIdle
    /\ ExecuteIdle
    /\ ProcessIdle
    /\ section \in DOMAIN SectionSettings
    /\ given \in [SettingNames(section) -> {"unset", "set", "bad"}]
    /\ \A s \in SettingNames(section) : given[s] \in GivenValues(section)[s]
    /\ attr = given
    /\ default_used = [s \in SettingNames(section) |-> FALSE]
    /\ roots = Roots(section)
    /\ unvalidated = Unvalidated(section)
    /\ out_deps = OutDeps(section)
    /\ visited = <<>>
    /\ validator_calls = <<>>
    /\ verr = [kind |-> "none", setting |-> "none"]
    /\ vpc = "loop"

(* One iteration of while roots (base.py:102-112): roots.pop() takes any    *)
(* element of the set; the setting is validated and the dependents whose    *)
(* last dependency it was become roots.                                     *)
ValidateStep ==
    /\ vpc = "loop"
    /\ roots # {}
    /\ \E setting_name \in roots :
         LET r == ValidateSetting(section, setting_name, attr[setting_name],
                                  default_used[setting_name])
             inc == IncDeps(section, setting_name)
             removed == [d \in DOMAIN out_deps |->
                            IF d \in inc THEN out_deps[d] \ {setting_name}
                            ELSE out_deps[d]]
             released == ReleasedBy(section, setting_name, out_deps)
         IN  /\ visited' = Append(visited, setting_name)
             /\ attr' = [attr EXCEPT ![setting_name] = r.value]
             /\ default_used' = [default_used EXCEPT ![setting_name] = r.default_used]
             /\ validator_calls' =
                    IF r.called
                    THEN Append(validator_calls,
                                [setting |-> setting_name, value |-> r.value,
                                 default_used |-> r.default_used])
                    ELSE validator_calls
             /\ IF r.err # "none"
                THEN /\ verr' = [kind |-> r.err, setting |-> setting_name]
                     /\ vpc' = "raised"
                     /\ roots' = roots \ {setting_name}
                     /\ UNCHANGED <<unvalidated, out_deps>>
                ELSE /\ roots' = (roots \ {setting_name}) \cup released
                     /\ unvalidated' = unvalidated \ released
                     /\ out_deps' = [d \in DOMAIN out_deps \ released |-> removed[d]]
                     /\ UNCHANGED <<verr, vpc>>
    /\ UNCHANGED <<section, given>>
    /\ UNCHANGED <<engineVars, outVars, execVars, procVars>>

(* Variant of EndOfLoop: validate returns whatever is left unvalidated *)
EndOfLoopReturns(unv) == "none"

(* if unvalidated: raise InvalidSettingError (base.py:114-118) *)
EndOfLoop(unv) == IF unv # {} THEN "dependencies" ELSE "none"

(* The end of the loop (base.py:114-118): the message of the error lists    *)
(* the set unvalidated, which nothing changes afterwards.                   *)
ValidateEnd ==
    /\ vpc = "loop"
    /\ roots = {}
    /\ IF EndOfLoop(unvalidated) # "none"
       THEN /\ verr' = [kind |-> "dependencies", setting |-> "none"]
            /\ vpc' = "raised"
       ELSE /\ vpc' = "done"
            /\ UNCHANGED verr
    /\ UNCHANGED <<section, given, attr, default_used, roots, unvalidated, out_deps,
                   visited, validator_calls>>
    /\ UNCHANGED <<engineVars, outVars, execVars, procVars>>

NextValidate ==
    \/ ValidateStep
    \/ ValidateEnd

SpecValidate == InitValidate /\ [][NextValidate]_vars

(* validate on the setting tables of TestTables *)
InitValidateTables ==
    /\ EngineIdle
    /\ OutputIdle
    /\ ExecuteIdle
    /\ ProcessIdle
    /\ section \in DOMAIN TestTables
    /\ given \in [SettingNames(section) -> {"unset", "set", "bad"}]
    /\ attr = given
    /\ default_used = [s \in SettingNames(section) |-> FALSE]
    /\ roots = Roots(section)
    /\ unvalidated = Unvalidated(section)
    /\ out_deps = OutDeps(section)
    /\ visited = <<>>
    /\ validator_calls = <<>>
    /\ verr = [kind |-> "none", setting |-> "none"]
    /\ vpc = "loop"

SpecValidateTables == InitValidateTables /\ [][NextValidate]_vars

(* The loop of validate is one thread that runs until it returns or raises *)
SpecValidateTablesFair == SpecValidateTables /\ WF_vars(NextValidate)

----------------------------------------------------------------------------
(* OutputConfiguration.process over the jobs of one workload on one device  *)
(* and scheduler, every job succeeding: the calls come in the order of the  *)
(* template and environment permutations (workloads.py:79-93, 111-119),     *)
(* each with the metric map of its job.                                     *)

(* The metric map of a job whose fio output holds completion latency percentiles *)
FIOMetricsPercentiles ==
    [k \in {"job-runtime", "iops-read", "clat-percentile-99.000000-read"} |->
        CASE k = "job-runtime" -> Number(1000, <<>>)
          [] k = "iops-read" -> Number(250, <<5>>)
          [] OTHER -> Number(1234, <<>>)]

MetricMaps == {FIOMetrics, FIOMetricsPercentiles}

(* The output sections: the format above, or one with a percentile token,   *)
(* with a token no table knows, with a token that is a key of the metric    *)
(* map, or with the name of the template parameter a; every setting of the  *)
(* append flags, clat percentiles included or not.                          *)
OutputCallConfigs ==
    [format : {<<"workload", "device", "scheduler", "job-runtime">>,
               <<"workload", "job-runtime", "clat-percentile-read">>,
               <<"workload", "bogus", "job-runtime">>,
               <<"workload", "clat-percentile-99.000000-read">>,
               <<"workload", "a", "job-runtime">>},
     append_template : BOOLEAN,
     append_environment : BOOLEAN,
     include_lat_percentile : {FALSE},
     include_clat_percentile : BOOLEAN]

InitOutput ==
    /\ cfg \in [workloads : {<<"wl1">>},
                devices : {<<"/dev/sdb">>},
                schedulers : {<<"noop">>},
                repetitions : {1},
                retry_count : {1},
                file_exists : {TRUE},
                template : {t \in TemplateConfigs : t.dynamic \in {<<>>, <<"a">>}},
                environment : {e \in EnvironmentConfigs : e.enabled},
                output : OutputCallConfigs]
    /\ pc = "calling"
    /\ wi = 1 /\ ds = 1 /\ ti = 1 /\ ei = 1 /\ rep = 0 /\ retry = 0
    /\ err = "none"
    /\ dev = [d \in Range(cfg.devices) |->
                 [scheduler |-> InitialScheduler, nomerges |-> 0]]
    /\ tempFile = cfg.template.enabled
    /\ tempOps = 0
    /\ nmLast = [d \in Range(cfg.devices) |-> None]
    /\ nmCalls = 0
    /\ jobs = <<>>
    /\ attempts = 0
    /\ outcome = "none"
    /\ mutationFailed = FALSE
    /\ wrote_header = FALSE
    /\ header_order = <<>>
    /\ file = <<>>
    /\ OutputIdle
    /\ ExecuteIdle
    /\ ProcessIdle
    /\ ValidateIdle

(* One OutputConfiguration.process call, then the step of the loops to the  *)
(* permutations of the next job.                                            *)
OutputCall ==
    /\ pc = "calling"
    /\ \E output \in MetricMaps :
         LET tsp == CurFilePermutation[2]
             esp == CurEnvPermutation
             universal == UniversalMetrics(cfg.workloads[wi], CurDevice, CurScheduler)
             r == ProcessCall(wrote_header, header_order, file, cfg.output,
                              output, universal, tsp, esp)
         IN  /\ wrote_header' = r.wrote_header
             /\ header_order' = r.header_order
             /\ file' = r.file
             /\ calls' = calls + 1
             /\ call' = [output |-> output, universal |-> universal,
                         tsp |-> tsp, esp |-> esp]
             /\ IF r.err # "none"
                THEN /\ Propagate(r.err)
                     /\ UNCHANGED <<ti, ei>>
                ELSE /\ UNCHANGED err
                     /\ IF ei < Len(EnvironmentPermutations(cfg.environment))
                        THEN /\ ei' = ei + 1
                             /\ UNCHANGED <<ti, pc>>
                        ELSE IF ti < Len(FilePermutations(cfg.template))
                        THEN /\ ti' = ti + 1
                             /\ ei' = 1
                             /\ UNCHANGED pc
                        ELSE /\ pc' = "done"
                             /\ UNCHANGED <<ti, ei>>
    /\ UNCHANGED <<valVars, execVars, procVars>>
    /\ UNCHANGED <<cfg, wi, ds, rep, retry, dev, tempFile, tempOps, nmLast, nmCalls,
                   jobs, attempts, outcome, mutationFailed>>

NextOutput == OutputCall

SpecOutput == InitOutput /\ [][NextOutput]_vars

----------------------------------------------------------------------------
(* execute (commands/execute.py:96-141): the for loop over args.inputs.     *)
(* Configuration.process is the engine above; here it is the device         *)
(* mutations it makes (change_scheduler of Job.process, change_nomerges of  *)
(* the environment permutations) and the way it ends.                       *)

InputPool == <<"a.ini", "b.ini">>

(* The devices the [global] section of every input file declares *)
DeclaredDevices == <<"/dev/sdb", "/dev/sdc">>

(* The subclasses of IOBSBaseException that leave the calls of the try body *)
ClassifiedErrors == {"InvalidConfigError", "InvalidSettingError",
                     "RetryCountExceededError", "OutputFormatError"}

(* What execute did for one input file *)
NewLogEntry == [validate |-> "none", saved |-> FALSE, process_called |-> FALSE,
                mutations |-> 0, raised |-> "none"]

KernelStates == [scheduler : {"noop", "cfq"}, nomerges : {0, 2}]

(* Configuration.__init__: _device_environments = {} *)
NewConfiguration == <<>>

InitExecute ==
    /\ EngineIdle
    /\ OutputIdle
    /\ ValidateIdle
    /\ ProcessIdle
    /\ args \in [inputs : {SubSeq(InputPool, 1, n) : n \in 1..MaxInputs},
                 reset_device : BOOLEAN]
    /\ continue_on_failure \in BOOLEAN
    /\ input_i = 1
    /\ epc = "parse"
    /\ exc = "none"
    /\ configuration = 0
    /\ sysfs \in [Range(DeclaredDevices) -> KernelStates]
    /\ sysfs["/dev/sdb"] = sysfs["/dev/sdc"]
    /\ device_environments = NewConfiguration
    /\ log = <<NewLogEntry>>
    /\ logged = <<>>

ExecuteFrame ==
    UNCHANGED <<engineVars, outVars, valVars, procVars, args, continue_on_failure>>

(* A call of the try body raised e: a classified error goes to the except   *)
(* clause, any other exception straight to the finally clause.              *)
RaiseInTry(e) ==
    /\ exc' = e
    /\ epc' = IF e \in ClassifiedErrors THEN "except" ELSE "finally"

(* configuration = parse_config_file(input_file)  (execute.py:120) *)
ParseConfigFile ==
    /\ epc = "parse"
    /\ \/ /\ configuration' = input_i
          /\ device_environments' = NewConfiguration
          /\ epc' = "validate"
          /\ UNCHANGED <<exc, log>>
       \/ /\ RaiseInTry("InvalidConfigError")
          /\ log' = [log EXCEPT ![input_i].raised = "InvalidConfigError"]
          /\ UNCHANGED <<configuration, device_environments>>
    /\ UNCHANGED <<input_i, sysfs, logged>>
    /\ ExecuteFrame

(* Variant of AfterValidate: the result of validate is not looked at *)
AfterValidateIgnoresError(result, reset_device) ==
    IF reset_device THEN "save" ELSE "process"

(* Where the try body goes after configuration.validate() (execute.py:121-126) *)
AfterValidate(result, reset_device) ==
    IF result # "ok" THEN "except"
    ELSE IF reset_device THEN "save" ELSE "process"

(* configuration.validate()  (execute.py:121, base.py:236-247): it reads    *)
(* the sections and the devices, and changes no device.                     *)
Validate ==
    /\ epc = "validate"
    /\ \E result \in {"ok", "InvalidSettingError"} :
         /\ log' = [log EXCEPT ![input_i].validate = result,
                               ![input_i].raised = IF result = "ok" THEN "none" ELSE result]
         /\ epc' = AfterValidate(result, args.reset_device)
         /\ exc' = IF result = "ok" THEN "none" ELSE result
    /\ UNCHANGED <<input_i, configuration, sysfs, device_environments, logged>>
    /\ ExecuteFrame

(* Configuration.save_device_environments (base.py:217-234) *)
SaveDeviceEnvironments(sys) ==
    [d \in Range(DeclaredDevices) |->
        [nomerges |-> sys[d].nomerges, scheduler |-> sys[d].scheduler]]

(* Configuration.restore_device_environments (base.py:196-215): the devices *)
(* that were not saved are skipped.                                         *)
RestoreDeviceEnvironments(sys, saved) ==
    [d \in DOMAIN sys |->
        IF d \in Range(DeclaredDevices) /\ d \in DOMAIN saved
        THEN [scheduler |-> saved[d].scheduler, nomerges |-> saved[d].nomerges]
        ELSE sys[d]]

(* if args.reset_device: configuration.save_device_environments()  (execute.py:123-124) *)
Save ==
    /\ epc = "save"
    /\ device_environments' = SaveDeviceEnvironments(sysfs)
    /\ log' = [log EXCEPT ![input_i].saved = TRUE]
    /\ epc' = "process"
    /\ UNCHANGED <<input_i, exc, configuration, sysfs, logged>>
    /\ ExecuteFrame

(* configuration.process() is entered  (execute.py:126) *)
ProcessEnter ==
    /\ epc = "process"
    /\ log' = [log EXCEPT ![input_i].process_called = TRUE]
    /\ epc' = "processing"
    /\ UNCHANGED <<input_i, exc, configuration, sysfs, device_environments, logged>>
    /\ ExecuteFrame

(* One device mutation of a job: change_scheduler (jobs.py:66) or           *)
(* change_nomerges (environments.py:80)                                     *)
ProcessMutation ==
    /\ epc = "processing"
    /\ log[input_i].mutations < MaxMutations
    /\ \E d \in Range(DeclaredDevices) :
         \/ \E sch \in {"noop", "cfq"} :
               sysfs' = [sysfs EXCEPT ![d].scheduler = sch]
         \/ \E nm \in {0, 2} :
               sysfs' = [sysfs EXCEPT ![d].nomerges = nm]
    /\ log' = [log EXCEPT ![input_i].mutations = @ + 1]
    /\ UNCHANGED <<input_i, epc, exc, configuration, device_environments, logged>>
    /\ ExecuteFrame

(* configuration.process() returns or raises *)
ProcessEnd ==
    /\ epc = "processing"
    /\ \/ /\ epc' = "finally"
          /\ UNCHANGED <<exc, log>>
       \/ \E e \in {"RetryCountExceededError", "OutputFormatError", "TypeError"} :
             /\ RaiseInTry(e)
             /\ log' = [log EXCEPT ![input_i].raised = e]
    /\ UNCHANGED <<input_i, configuration, sysfs, device_environments, logged>>
    /\ ExecuteFrame

(* except IOBSBaseException as err  (execute.py:127-133): raise err, or log *)
(* and go on.                                                               *)
Except ==
    /\ epc = "except"
    /\ IF ~continue_on_failure
       THEN UNCHANGED <<exc, logged>>
       ELSE /\ logged' = Append(logged, [input |-> args.inputs[input_i], err |-> exc])
            /\ exc' = "none"
    /\ epc' = "finally"
    /\ UNCHANGED <<input_i, configuration, sysfs, device_environments, log>>
    /\ ExecuteFrame

(* The exception the attribute lookup of the finally clause raises: the     *)
(* name configuration is unbound when the first parse_config_file raised,   *)
(* and Configuration has no attribute reset_device_environments.            *)
ResetDeviceEnvironmentsLookup(conf) ==
    IF conf = 0 THEN "UnboundLocalError" ELSE "AttributeError"

(* finally: if args.reset_device: configuration.reset_device_environments() *)
(* (execute.py:134-136), then the exception in flight goes on, or the loop  *)
(* takes the next input file, or execute returns.  An exception raised in   *)
(* the finally clause replaces the one in flight.                           *)
Finally ==
    /\ epc = "finally"
    /\ IF args.reset_device
       THEN /\ exc' = ResetDeviceEnvironmentsLookup(configuration)
            /\ epc' = "raised"
            /\ UNCHANGED <<input_i, log>>
       ELSE IF exc # "none"
       THEN /\ epc' = "raised"
            /\ UNCHANGED <<exc, input_i, log>>
       ELSE IF input_i < Len(args.inputs)
       THEN /\ input_i' = input_i + 1
            /\ log' = Append(log, NewLogEntry)
            /\ epc' = "parse"
            /\ UNCHANGED exc
       ELSE /\ epc' = "returned"
            /\ UNCHANGED <<exc, input_i, log>>
    /\ UNCHANGED <<configuration, sysfs, device_environments, logged>>
    /\ ExecuteFrame

NextExecute ==
    \/ ParseConfigFile
    \/ Validate
    \/ Save
    \/ ProcessEnter
    \/ ProcessMutation
    \/ ProcessEnd
    \/ Except
    \/ Finally

SpecExecute == InitExecute /\ [][NextExecute]_vars

----------------------------------------------------------------------------
(* A caller of Configuration that wants a non-destructive run:              *)
(* save_device_environments, process, restore_device_environments.          *)

InitConfiguration ==
    /\ EngineIdle
    /\ OutputIdle
    /\ ValidateIdle
    /\ ProcessIdle
    /\ args = [inputs |-> <<"a.ini">>, reset_device |-> TRUE]
    /\ continue_on_failure = FALSE
    /\ input_i = 1
    /\ epc = "save"
    /\ exc = "none"
    /\ configuration = 1
    /\ sysfs \in [Range(DeclaredDevices) -> KernelStates]
    /\ device_environments = NewConfiguration
    /\ log = <<[NewLogEntry EXCEPT !.validate = "ok"]>>
    /\ logged = <<>>

(* process returned or raised: the caller goes on to restore *)
ProcessLeft ==
    /\ epc = "processing"
    /\ \E e \in {"none", "RetryCountExceededError", "TypeError"} :
         /\ exc' = e
         /\ log' = [log EXCEPT ![input_i].raised = e]
    /\ epc' = "restore"
    /\ UNCHANGED <<input_i, configuration, sysfs, device_environments, logged>>
    /\ ExecuteFrame

(* configuration.restore_device_environments() *)
Restore ==
    /\ epc = "restore"
    /\ sysfs' = RestoreDeviceEnvironments(sysfs, device_environments)
    /\ epc' = "restored"
    /\ UNCHANGED <<input_i, exc, configuration, device_environments, log, logged>>
    /\ ExecuteFrame

NextConfiguration ==
    \/ Save
    \/ ProcessEnter
    \/ ProcessMutation
    \/ ProcessLeft
    \/ Restore

SpecConfiguration == InitConfiguration /\ [][NextConfiguration]_vars

----------------------------------------------------------------------------
(* The process registry (process.py:38-147), the commands that spawn child  *)
(* processes, Job.process with and without tracing (jobs.py:57-130) under   *)
(* the retry loop of _try_process, and the signal handler of __main__.      *)

(* ProcessManager.add_process *)
AddProcess(procs, command, pid) == Append(procs, [command |-> command, pid |-> pid])

(* ProcessManager.clear_process: the first entry with the command is        *)
(* swapped with the last one, and the last one is popped.                   *)
ClearProcess(procs, command) ==
    LET idx == {i \in 1..Len(procs) : procs[i].command = command}
    IN  IF idx = {} THEN procs
        ELSE LET i == CHOOSE k \in idx : \A m \in idx : k <= m
                 swapped == [procs EXCEPT ![i] = procs[Len(procs)]]
             IN  SubSeq(swapped, 1, Len(procs) - 1)

(* ProcessManager.clear_processes *)
ClearProcesses(procs) == <<>>

(* The first statement of the try body of kill_processes formats its        *)
(* message with process.id (process.py:122); a Popen object has the         *)
(* attribute pid and no attribute id.                                       *)
KillMessage(entry) == "AttributeError"

(* ProcessManager.kill_processes: the pids os.killpg is called for.  The    *)
(* try body of an entry stops at the first exception, which the except      *)
(* clause logs.                                                             *)
KillProcesses(procs) ==
    {procs[i].pid : i \in {k \in 1..Len(procs) : KillMessage(procs[k]) = "none"}}

(* The command run_command runs at a position of Job.process *)
Foreground == [execute |-> "fio", blkparse |-> "blkparse", btt |-> "btt"]

(* The jobs of the loops: one device, each scheduler *)
Jobs == [device : {"/dev/sdb"}, scheduler : {"noop", "cfq"}]

InitProcess ==
    /\ EngineIdle
    /\ OutputIdle
    /\ ValidateIdle
    /\ ExecuteIdle
    /\ PROCESSES = <<>>
    /\ running = {}
    /\ jpc = "start"
    /\ bp = 0
    /\ fg = 0
    /\ next_pid = 1
    /\ job_no = 1
    /\ job_attempt = 1
    /\ use_blktrace \in BOOLEAN
    /\ killpg_sent = {}
    /\ exit_status = -1
    /\ job \in Jobs
    /\ kernel = [d \in {"/dev/sdb"} |-> [scheduler |-> InitialScheduler, cleared |-> FALSE]]
    /\ attempt_steps = <<>>
    /\ outputs = <<>>
    /\ job_err = "none"

ProcessFrame == UNCHANGED <<engineVars, outVars, valVars, execVars, use_blktrace>>

Running == exit_status = -1

(* Exception e leaves a call of Job.process: JobExecutionError and          *)
(* OutputParsingError raised in the try body of the tracing branch are      *)
(* caught at jobs.py:76 and re-raised, and _try_process catches both; any   *)
(* other exception leaves _try_process.                                     *)
RaiseInJob(e, in_try) ==
    /\ job_err' = e
    /\ jpc' = IF e \in {"JobExecutionError", "OutputParsingError"}
              THEN IF in_try THEN "except" ELSE "raised"
              ELSE "propagated"

(* Variant of AfterChangeScheduler: the return code is not looked at *)
AfterChangeSchedulerIgnoresRc(rc) == "none"

(* change_scheduler (process.py:174-196): a return code other than 0 raises *)
AfterChangeScheduler(rc) == IF rc # 0 THEN "SchedulerChangeError" ELSE "none"

(* Job.process: change_scheduler(self.device, self.scheduler) (jobs.py:66). *)
(* The echo into the sysfs file sets the scheduler when it returns 0.       *)
ChangeSchedulerStep ==
    /\ Running
    /\ jpc = "start"
    /\ attempt_steps' = <<"change_scheduler">>
    /\ outputs' = <<>>
    /\ bp' = 0
    /\ \E rc \in {0, 1} :
         /\ kernel' = IF rc = 0
                      THEN [kernel EXCEPT ![job.device] =
                               [scheduler |-> job.scheduler, cleared |-> FALSE]]
                      ELSE kernel
         /\ IF AfterChangeScheduler(rc) = "none"
            THEN /\ jpc' = "clear_caches"
                 /\ job_err' = "none"
            ELSE RaiseInJob(AfterChangeScheduler(rc), FALSE)
    /\ UNCHANGED <<PROCESSES, running, fg, next_pid, job_no, job_attempt,
                   killpg_sent, exit_status, job>>
    /\ ProcessFrame

(* Job.process: clear_caches(self.device) (jobs.py:67, process.py:229-248), *)
(* then the test of use_blktrace.                                           *)
ClearCachesStep ==
    /\ Running
    /\ jpc = "clear_caches"
    /\ attempt_steps' = Append(attempt_steps, "clear_caches")
    /\ kernel' = [kernel EXCEPT ![job.device].cleared = TRUE]
    /\ jpc' = IF use_blktrace THEN "run_blktrace" ELSE "execute"
    /\ UNCHANGED <<PROCESSES, running, bp, fg, next_pid, job_no, job_attempt,
                   killpg_sent, exit_status, job, outputs, job_err>>
    /\ ProcessFrame

(* Job.run_blktrace: run_command_nowait registers the child and returns it, *)
(* or Popen raises, None is returned and run_blktrace raises                *)
(* JobExecutionError.                                                       *)
RunBlktrace ==
    /\ Running
    /\ jpc = "run_blktrace"
    /\ next_pid <= MaxPids
    /\ attempt_steps' = Append(attempt_steps, "run_blktrace")
    /\ \/ /\ running' = running \cup {next_pid}
          /\ PROCESSES' = AddProcess(PROCESSES, "blktrace", next_pid)
          /\ bp' = next_pid
          /\ next_pid' = next_pid + 1
          /\ jpc' = "execute"
          /\ UNCHANGED <<outputs, job_err>>
       \/ /\ PROCESSES' = ClearProcess(PROCESSES, "blktrace")
          /\ outputs' = Append(outputs, [command |-> "blktrace", out |-> "None"])
          /\ RaiseInJob("JobExecutionError", TRUE)
          /\ UNCHANGED <<running, bp, next_pid>>
    /\ UNCHANGED <<fg, job_no, job_attempt, killpg_sent, exit_status, job, kernel>>
    /\ ProcessFrame

(* What the caller of run_command does with the output of the command of a  *)
(* position: FIOJob.execute and collect_output (jobs.py:315-341, 395-414),  *)
(* process_blktrace and collect_blktrace_output (jobs.py:97-171).  None is  *)
(* what run_command returns when Popen raised; a command that ran returns   *)
(* a string, which may be empty.                                            *)
CommandError(pos, out) ==
    CASE out = "None" -> "JobExecutionError"
      [] pos = "execute" /\ out \in {"empty", "garbage"} -> "OutputParsingError"
      [] pos = "execute" /\ out = "not_object" -> "TypeError"
      [] pos = "btt" /\ out = "short_line" -> "OutputParsingError"
      [] OTHER -> "none"

(* The outputs a command that ran can give: nothing, text that is not what  *)
(* the parser expects, JSON that is not an object, a D2C line with too few  *)
(* fields, or the expected output.                                          *)
CommandOutputs(pos) ==
    CASE pos = "execute" -> {"empty", "garbage", "not_object", "ok"}
      [] pos = "blkparse" -> {"empty", "ok"}
      [] pos = "btt" -> {"empty", "garbage", "short_line", "ok"}

(* run_command up to the wait: Popen and add_process (process.py:466-474) *)
RunCommandSpawn ==
    /\ Running
    /\ jpc \in DOMAIN Foreground
    /\ fg = 0
    /\ next_pid <= MaxPids
    /\ attempt_steps' = Append(attempt_steps, jpc)
    /\ running' = running \cup {next_pid}
    /\ PROCESSES' = AddProcess(PROCESSES, Foreground[jpc], next_pid)
    /\ fg' = next_pid
    /\ next_pid' = next_pid + 1
    /\ UNCHANGED <<jpc, bp, job_no, job_attempt, killpg_sent, exit_status, job, kernel,
                   outputs, job_err>>
    /\ ProcessFrame

(* run_command whose Popen raises: (None, None) is returned through the     *)
(* except clause, after the finally clause (process.py:482-487).            *)
RunCommandFails ==
    /\ Running
    /\ jpc \in DOMAIN Foreground
    /\ fg = 0
    /\ attempt_steps' = Append(attempt_steps, jpc)
    /\ PROCESSES' = ClearProcess(PROCESSES, Foreground[jpc])
    /\ outputs' = Append(outputs, [command |-> Foreground[jpc], out |-> "None"])
    /\ RaiseInJob(CommandError(jpc, "None"), use_blktrace)
    /\ UNCHANGED <<running, bp, fg, next_pid, job_no, job_attempt, killpg_sent,
                   exit_status, job, kernel>>
    /\ ProcessFrame

(* Where Job.process goes when the command of a position gave its output *)
AfterCommand(pos, tracing) ==
    CASE pos = "execute" -> IF tracing THEN "terminate" ELSE "returned"
      [] pos = "blkparse" -> "btt"
      [] pos = "btt" -> "returned"

(* The child of run_command finished: the finally clause clears its entry   *)
(* (process.py:486-487) and the caller uses the output or raises.  The      *)
(* workload has run: the caches are no longer clean.                        *)
RunCommandReturn ==
    /\ Running
    /\ jpc \in DOMAIN Foreground
    /\ fg # 0
    /\ running' = running \ {fg}
    /\ PROCESSES' = ClearProcess(PROCESSES, Foreground[jpc])
    /\ fg' = 0
    /\ kernel' = IF jpc = "execute"
                 THEN [kernel EXCEPT ![job.device].cleared = FALSE]
                 ELSE kernel
    /\ \E out \in CommandOutputs(jpc) :
         /\ outputs' = Append(outputs, [command |-> Foreground[jpc], out |-> out])
         /\ IF CommandError(jpc, out) = "none"
            THEN /\ jpc' = AfterCommand(jpc, use_blktrace)
                 /\ UNCHANGED job_err
            ELSE RaiseInJob(CommandError(jpc, out), use_blktrace)
    /\ UNCHANGED <<bp, next_pid, job_no, job_attempt, killpg_sent, exit_status, job,
                   attempt_steps>>
    /\ ProcessFrame

(* Job.process_blktrace: terminate_process(process) (process.py:587-605),   *)
(* which leaves the registry as it is and returns a string.                 *)
TerminateBlktrace ==
    /\ Running
    /\ jpc = "terminate"
    /\ attempt_steps' = Append(attempt_steps, "terminate")
    /\ running' = running \ {bp}
    /\ jpc' = "blkparse"
    /\ UNCHANGED <<PROCESSES, bp, fg, next_pid, job_no, job_attempt,
                   killpg_sent, exit_status, job, kernel, outputs, job_err>>
    /\ ProcessFrame

(* except (JobExecutionError, OutputParsingError): clear_processes(), raise *)
(* (jobs.py:76-78)                                                          *)
ExceptClear ==
    /\ Running
    /\ jpc = "except"
    /\ PROCESSES' = ClearProcesses(PROCESSES)
    /\ jpc' = "raised"
    /\ UNCHANGED <<running, bp, fg, next_pid, job_no, job_attempt,
                   killpg_sent, exit_status, job, kernel, attempt_steps, outputs, job_err>>
    /\ ProcessFrame

(* _try_process: the next iteration of the retry loop builds a new Job, or  *)
(* the loop is over.                                                        *)
TryProcessRetry ==
    /\ Running
    /\ jpc = "raised"
    /\ IF job_attempt < RetryCount
       THEN /\ job_attempt' = job_attempt + 1
            /\ jpc' = "start"
       ELSE /\ jpc' = "exceeded"
            /\ UNCHANGED job_attempt
    /\ UNCHANGED <<PROCESSES, running, bp, fg, next_pid, job_no,
                   killpg_sent, exit_status, job, kernel, attempt_steps, outputs, job_err>>
    /\ ProcessFrame

(* The job returned its metrics: the loops go on to the next job *)
NextJob ==
    /\ Running
    /\ jpc = "returned"
    /\ job_no < MaxJobs
    /\ job_no' = job_no + 1
    /\ job_attempt' = 1
    /\ job' \in Jobs
    /\ jpc' = "start"
    /\ UNCHANGED <<PROCESSES, running, bp, fg, next_pid, killpg_sent, exit_status,
                   kernel, attempt_steps, outputs, job_err>>
    /\ ProcessFrame

(* sig_handler (__main__.py:29-44), run between two steps of the main       *)
(* thread: kill_processes, clear_processes, sys.exit(1).  A child that gets *)
(* SIGTERM ends; the children are session leaders (preexec_fn=os.setsid),   *)
(* so the exit of the program ends none of them.                            *)
SigHandler ==
    /\ Running
    /\ killpg_sent' = killpg_sent \cup KillProcesses(PROCESSES)
    /\ running' = running \ KillProcesses(PROCESSES)
    /\ PROCESSES' = ClearProcesses(PROCESSES)
    /\ exit_status' = 1
    /\ UNCHANGED <<jpc, bp, fg, next_pid, job_no, job_attempt, job, kernel,
                   attempt_steps, outputs, job_err>>
    /\ ProcessFrame

NextProcess ==
    \/ ChangeSchedulerStep
    \/ ClearCachesStep
    \/ RunBlktrace
    \/ RunCommandSpawn
    \/ RunCommandFails
    \/ RunCommandReturn
    \/ TerminateBlktrace
    \/ ExceptClear
    \/ TryProcessRetry
    \/ NextJob
    \/ SigHandler

SpecProcess == InitProcess /\ [][NextProcess]_vars

----------------------------------------------------------------------------
(* Properties *)

DeviceErrors == {"SchedulerChangeError", "DeviceSettingChangeError"}

(* The lines of the output file after the header line *)
DataRows == IF file = <<>> THEN <<>> ELSE Tail(file)

(* TRUE while the loops run under a permutation the environment generator yielded *)
UnderEnvPermutation == pc \in {"rep_next", "try", "output"}

(* TRUE when get_environment_permutations has just been consumed to its end *)
EnvGeneratorExhausted == pc = "tmpl_next" /\ ti >= 1

JobIndex(j) == <<j.wi, j.di, j.si, j.ti, j.ei, j.rep>>
(* What a job is run with: the template permutation counts as the         *)
(* assignment of values to parameter names that the file is interpolated   *)
(* with, whatever the order of the pairs in the tuple.                     *)
JobValue(j) ==
    <<j.workload, j.device, j.scheduler, PermutationSettingDict(j.tsp), j.esp, j.rep>>

LexLess(x, y) ==
    \E k \in 1..Len(x) : /\ \A m \in 1..(k - 1) : x[m] = y[m]
                         /\ x[k] < y[k]

(* Jobs start in increasing lexicographic order of (workload, device,      *)
(* scheduler, template permutation, environment permutation, repetition).  *)
NestedOrder ==
    \A i \in 1..(Len(jobs) - 1) : LexLess(JobIndex(jobs[i]), JobIndex(jobs[i + 1]))

(* The job sequence of a run of configuration c in which every job succeeds *)
ExpectedJobs(c) ==
    LET fps == FilePermutations(c.template)
    IN  Product(<<c.workloads, c.devices, c.schedulers,
                  [i \in 1..Len(fps) |-> PermutationSettingDict(fps[i][2])],
                  EnvironmentPermutations(c.environment),
                  [i \in 1..c.repetitions |-> i - 1]>>)

(* The iteration orders the set _dynamic_settings of this configuration can have *)
DynamicOrders ==
    {q \in SeqsNoDup(Range(cfg.template.dynamic), Len(cfg.template.dynamic)) :
        Len(q) = Len(cfg.template.dynamic)}

(* The jobs started so far are the first jobs of every run of the same     *)
(* declared configuration, whatever iteration order its set of dynamic     *)
(* settings has in that run.                                                *)
SameJobsInEveryRun ==
    \A order \in DynamicOrders :
        LET expected == ExpectedJobs([cfg EXCEPT !.template.dynamic = order])
        IN  /\ Len(jobs) <= Len(expected)
            /\ jobs # <<>> => JobValue(jobs[Len(jobs)]) = expected[Len(jobs)]

(* C1 (as stated): jobs start in the nested order devices, schedulers,     *)
(* template permutations, environment permutations, repetitions, the       *)
(* lexicographically smaller tuple first, and two runs of the same         *)
(* configuration produce the same job sequence.                            *)
C1_Original == NestedOrder /\ SameJobsInEveryRun

(* C2 (as stated): with templating and the environment disabled, a         *)
(* completed run has written exactly D*S*R data rows per workload, and for *)
(* one device, schedulers [noop, deadline] and 2 repetitions the rows are  *)
(* (noop, rep 1), (noop, rep 2), (deadline, rep 1), (deadline, rep 2).     *)
C2_Original ==
    (pc = "done" /\ ~cfg.template.enabled /\ ~cfg.environment.enabled) =>
        /\ Len(DataRows) = Len(cfg.workloads) * Len(cfg.devices)
                               * Len(cfg.schedulers) * cfg.repetitions
        /\ (/\ Len(cfg.workloads) = 1 /\ Len(cfg.devices) = 1
            /\ cfg.schedulers = <<"noop", "deadline">> /\ cfg.repetitions = 2)
           => /\ [i \in 1..Len(DataRows) |-> DataRows[i][3]]
                    = <<"noop", "noop", "deadline", "deadline">>
              /\ [i \in 1..Len(jobs) |-> jobs[i].rep] = <<0, 1, 0, 1>>

(* C3 (as stated): a disabled environment section yields exactly one       *)
(* permutation, the empty tuple, and change_nomerges is never called.      *)
C3_Original ==
    ~cfg.environment.enabled =>
        /\ nmCalls = 0
        /\ EnvGeneratorExhausted =>
              /\ ei = 1
              /\ EnvironmentPermutations(cfg.environment) = << <<>> >>

(* C4 (as stated): when nomerges was left at its default the generator     *)
(* yields exactly one permutation, the empty one, and change_nomerges is   *)
(* not called, whether or not the section is enabled.                      *)
C4_Original ==
    cfg.environment.default_used =>
        /\ nmCalls = 0
        /\ UnderEnvPermutation => CurEnvPermutation = <<>>
        /\ EnvGeneratorExhausted => ei = 1

(* C5 (as stated): an enabled section with nomerges set to k values yields *)
(* exactly the k permutations ('nomerges=v',), one per declared value in   *)
(* order, and no other permutation.                                        *)
C5_Original ==
    (cfg.environment.enabled /\ ~cfg.environment.default_used) =>
        /\ UnderEnvPermutation =>
              /\ ei <= Len(cfg.environment.nomerges)
              /\ CurEnvPermutation
                    = <<FormatSetting("nomerges", IntToStr(cfg.environment.nomerges[ei]))>>
        /\ EnvGeneratorExhausted => ei = Len(cfg.environment.nomerges)

(* C6: whenever a job runs on a device under an environment permutation    *)
(* that contains nomerges=v, the most recent change_nomerges call on that  *)
(* device passed v, and the device holds that value.                       *)
C6_EnvironmentApplied ==
    UnderEnvPermutation =>
        \A i \in 1..Len(CurEnvPermutation) :
            SettingName(CurEnvPermutation[i]) = "nomerges" =>
                /\ nmLast[CurDevice] = SettingValue(CurEnvPermutation[i])
                /\ dev[CurDevice].nomerges = StrToInt(SettingValue(CurEnvPermutation[i]))

(* A job has produced its output under the second nomerges permutation *)
C6_Witness ==
    /\ pc = "output"
    /\ ei = 2
    /\ Len(CurEnvPermutation) = 1
    /\ nmLast[CurDevice] = "0"

(* C7: when _try_process raises RetryCountExceededError with retry_count   *)
(* n >= 1, exactly n jobs were constructed and run for that job, and the   *)
(* last of them failed with a retryable error.                             *)
C7_RetryExhaustion ==
    (err = "RetryCountExceededError" /\ cfg.retry_count >= 1) =>
        /\ attempts = cfg.retry_count
        /\ outcome \in {"JobExecutionError", "OutputParsingError"}

(* Three failed attempts with retry_count = 3, then RetryCountExceededError *)
C7_Witness ==
    /\ err = "RetryCountExceededError"
    /\ cfg.retry_count = MaxRetryCount
    /\ attempts = MaxRetryCount
    /\ outcome = "JobExecutionError"

(* C8: an attempt that fails with JobExecutionError or OutputParsingError  *)
(* does not propagate: _try_process stays in its retry loop, and starts    *)
(* the next attempt when fewer than retry_count were made; an attempt that *)
(* succeeds returns its metric map, and no further attempt is made for     *)
(* that job.                                                               *)
C8_BothErrorsRetried ==
    [][/\ attempts' = attempts + 1 =>
            /\ outcome' \in {"JobExecutionError", "OutputParsingError"} =>
                  /\ pc' = "try"
                  /\ err' = "none"
                  /\ retry' = attempts'
                  /\ attempts' < cfg.retry_count => retry' \in 0..(cfg.retry_count - 1)
            /\ outcome' = "ok" => (pc' = "output" /\ err' = "none")
       /\ pc = "output" => attempts' = attempts]_vars

(* An output-parsing error on an attempt that is not the last one *)
C8_Witness ==
    /\ pc = "try"
    /\ outcome = "OutputParsingError"
    /\ attempts >= 1
    /\ attempts < cfg.retry_count

(* C9: once RetryCountExceededError is raised no further job is started or *)
(* attempted, the loops advance no further and no line is written.         *)
C9_ExhaustionAborts ==
    [][err = "RetryCountExceededError" =>
           UNCHANGED <<jobs, attempts, file, wi, ds, ti, ei, rep>>]_vars

(* Retries exhausted while repetitions, pairs and workloads remain *)
C9_Witness ==
    /\ err = "RetryCountExceededError"
    /\ attempts >= 1
    /\ rep + 1 < cfg.repetitions
    /\ ds < Len(DeviceSchedulerProduct(cfg))
    /\ wi < Len(cfg.workloads)

----------------------------------------------------------------------------
(* Rows and jobs *)

(* The data rows that were written to their end *)
CompleteRows == SelectSeq(DataRows, LAMBDA l : l # <<>> /\ l[Len(l)] = "END")

(* The jobs that have succeeded so far: every started job but the current   *)
(* one while its attempts have all failed.                                  *)
SucceededJobs == Len(jobs) - (IF attempts >= 1 /\ outcome # "ok" THEN 1 ELSE 0)

(* Row i carries the values of the permutation sp under the columns of its names *)
RowCarries(i, sp) ==
    \A n \in DOMAIN PermutationSettingDict(sp) :
        \E k \in 1..Len(header_order) :
            /\ header_order[k] = n
            /\ k <= Len(DataRows[i])
            /\ DataRows[i][k] = PermutationSettingDict(sp)[n]

(* The rows written so far are complete rows, one per succeeded job, each   *)
(* with the permutations of its job.                                        *)
OneRowPerSucceededJob ==
    /\ Len(DataRows) = SucceededJobs
    /\ Len(CompleteRows) = SucceededJobs
    /\ \A i \in 1..Len(DataRows) :
          RowCarries(i, jobs[i].tsp) /\ RowCarries(i, jobs[i].esp)

(* C11 (as stated): every successful job emits exactly one row with the     *)
(* template and environment permutation of the job, before the next job    *)
(* starts, and a failed attempt writes none: the data rows are as many as   *)
(* the jobs that have succeeded, but for the job whose row is being written. *)
C11_Original ==
    /\ pc # "output" => OneRowPerSucceededJob
    /\ pc = "output" => Len(DataRows) = SucceededJobs - 1

(* The same without the runs of an enabled environment section with a       *)
(* declared nomerges list, whose generator yields one permutation too many. *)
C11_WithoutExtraPermutation ==
    (~cfg.environment.enabled \/ cfg.environment.default_used) => C11_Original

----------------------------------------------------------------------------
(* Validation of a section *)

(* The position of setting s in the order of the _validate_setting calls, 0 if none *)
VisitIndex(s) ==
    IF \E i \in 1..Len(visited) : visited[i] = s
    THEN CHOOSE i \in 1..Len(visited) : visited[i] = s
    ELSE 0

(* The settings validation_fn was called for *)
ValidatorCalled == {validator_calls[i].setting : i \in 1..Len(validator_calls)}

(* A setting that cannot pass _validate_setting with the value it was given *)
Fails(s) ==
    \/ given[s] = "bad"
    \/ given[s] = "unset" /\ ~SettingTable(section)[s].default

(* The declared dependency edges: B declares A in dependent_attributes *)
DependencyEdges ==
    {<<B, A>> \in SettingNames(section) \X SettingNames(section) :
        A \in SettingTable(section)[B].deps}

(* C12: a setting that declares a dependency is passed to _validate_setting *)
(* only after the dependency was, and only once: in the global section      *)
(* schedulers is validated after devices.                                   *)
C12_DependencyFirst ==
    vpc # "idle" =>
        /\ \A e \in DependencyEdges :
              VisitIndex(e[1]) # 0 =>
                  /\ VisitIndex(e[2]) # 0
                  /\ VisitIndex(e[2]) < VisitIndex(e[1])
        /\ \A i, j \in 1..Len(visited) : visited[i] = visited[j] => i = j

(* schedulers was validated while settings without dependencies remained *)
C12_Witness ==
    /\ section = "global"
    /\ VisitIndex("schedulers") # 0
    /\ roots # {}

(* C13: validate stops at the first setting that fails and raises           *)
(* InvalidSettingError for that setting; when the validator of A rejects    *)
(* and B depends on A, the validator of B is never called and the error is  *)
(* not attributed to B, and it is attributed to A when A is the only        *)
(* setting that fails.                                                      *)
C13_FirstFailureReported ==
    vpc # "idle" =>
        /\ \A i \in 1..(Len(visited) - 1) : ~Fails(visited[i])
        /\ vpc = "raised" =>
              /\ verr.kind \in {"invalid", "required"}
              /\ verr.setting = visited[Len(visited)]
              /\ Fails(verr.setting)
        /\ (visited # <<>> /\ Fails(visited[Len(visited)])) => vpc = "raised"
        /\ \A e \in DependencyEdges :
              given[e[2]] = "bad" =>
                  /\ e[1] \notin ValidatorCalled
                  /\ VisitIndex(e[1]) = 0
                  /\ verr.setting # e[1]
                  /\ vpc # "done"
                  /\ (vpc = "raised" /\ \A s \in SettingNames(section) \ {e[2]} : ~Fails(s))
                        => verr = [kind |-> "invalid", setting |-> e[2]]

(* devices was rejected while schedulers, which depends on it, holds a     *)
(* value of its own that would be rejected too                              *)
C13_Witness ==
    /\ section = "global"
    /\ vpc = "raised"
    /\ given["devices"] = "bad"
    /\ given["schedulers"] = "bad"
    /\ verr = [kind |-> "invalid", setting |-> "devices"]
    /\ Len(visited) >= 2

(* C14: a setting that was left unset reaches its validator with its        *)
(* default value and default_used set; one without a default raises         *)
(* InvalidSettingError for a missing required setting and its validator is  *)
(* not called.                                                              *)
C14_DefaultOrRequired ==
    vpc # "idle" =>
        /\ \A i \in 1..Len(validator_calls) :
              given[validator_calls[i].setting] = "unset" =>
                  /\ validator_calls[i].value = "default"
                  /\ validator_calls[i].default_used
                  /\ SettingTable(section)[validator_calls[i].setting].default
        /\ \A s \in SettingNames(section) :
              (VisitIndex(s) # 0 /\ given[s] = "unset") =>
                  IF SettingTable(section)[s].default
                  THEN /\ attr[s] = "default"
                       /\ default_used[s]
                       /\ s \in ValidatorCalled
                  ELSE /\ vpc = "raised"
                       /\ verr = [kind |-> "required", setting |-> s]
                       /\ s \notin ValidatorCalled

(* A global section without devices: repetitions got its default, then      *)
(* devices was found missing                                                *)
C14_Witness ==
    /\ section = "global"
    /\ given["repetitions"] = "unset"
    /\ default_used["repetitions"]
    /\ "repetitions" \in ValidatorCalled
    /\ verr = [kind |-> "required", setting |-> "devices"]

(* A workload section without file *)
C14_WitnessWorkloadFile ==
    /\ section = "workload"
    /\ given["file"] = "unset"
    /\ verr = [kind |-> "required", setting |-> "file"]

----------------------------------------------------------------------------
(* The template generator *)

(* TRUE while the loops run under a pair get_file_permutations yielded *)
UnderFilePermutation == pc \in {"env_next", "rep_next", "try", "output"}

(* TRUE when get_file_permutations has just yielded a pair *)
FileJustYielded == pc = "env_next" /\ ei = 0

(* TRUE when a get_file_permutations generator was consumed to its end *)
FileGeneratorExhausted == pc = "ds_next" /\ ds >= 1

(* The index of the (device, scheduler) pair job j ran on *)
JobPair(j) == (j.di - 1) * Len(cfg.schedulers) + j.si

(* C15: with templating disabled the generator yields exactly one pair,     *)
(* the original file with the empty permutation, whatever parameters the    *)
(* section declares, and the temporary file is never created or removed.    *)
C15_DisabledYieldsOriginal ==
    (pc # "idle" /\ ~cfg.template.enabled) =>
        /\ ~tempFile
        /\ tempOps = 0
        /\ UnderFilePermutation =>
              /\ ti = 1
              /\ CurFilePermutation = <<WorkloadFile, <<>> >>
        /\ FileGeneratorExhausted => ti = 1

(* A disabled section that declares the parameter a, its generator consumed *)
(* after a job ran on the original file                                     *)
C15_Witness ==
    /\ ~cfg.template.enabled
    /\ cfg.template.dynamic = <<"a">>
    /\ FileGeneratorExhausted
    /\ jobs # <<>>
    /\ jobs[Len(jobs)].file = WorkloadFile

(* The number of elements of the product: n1 * ... * nk *)
RECURSIVE ProductSize(_)
ProductSize(lists) ==
    IF lists = <<>> THEN 1 ELSE Len(Head(lists)) * ProductSize(Tail(lists))

(* The elements of the Cartesian product as assignments of a value to every parameter *)
AllAssignments(tmpl) ==
    {f \in [Range(tmpl.dynamic) -> UNION {Range(tmpl.values[n]) : n \in Range(tmpl.dynamic)}] :
        \A n \in Range(tmpl.dynamic) : f[n] \in Range(tmpl.values[n])}

C17_Original ==
    (FileGeneratorExhausted \/ pc \in {"done", "raised"}) => ~tempFile

(* The run was left by RetryCountExceededError and the __temp__ file of the *)
(* permutation under which the job failed is still there                    *)
TempFileLeftByRetryExhaustion ==
    /\ err = "RetryCountExceededError"
    /\ cfg.retry_count >= 1
    /\ tempFile

(* The part of C17 that holds: no __temp__ file remains after a sequence    *)
(* that was consumed to its end.                                            *)
C17_ConsumedLeavesNoTempFile ==
    (FileGeneratorExhausted \/ pc = "done") => ~tempFile

(* C18: when the file of the workload does not exist, the first resumption  *)
(* of get_file_permutations raises InvalidSettingError: nothing was yielded, *)
(* no temporary file is created or removed, and no job has run for that     *)
(* (device, scheduler) pair.                                                *)
C18_MissingFileFailsFirst ==
    [][/\ (pc = "tmpl_next" /\ ti = 0 /\ ~FileExists(cfg, wi)) =>
            /\ pc' = "raised"
            /\ err' = "InvalidSettingError"
            /\ UNCHANGED <<ti, tempFile, tempOps, jobs, attempts, file>>
       /\ (err = "none" /\ err' = "InvalidSettingError") =>
            /\ ti = 0
            /\ ~tempFile'
            /\ \A i \in 1..Len(jobs') :
                  ~(jobs'[i].wi = wi /\ JobPair(jobs'[i]) = ds)]_vars

(* The file of the second workload is missing: the jobs of the first have   *)
(* run, and the second stops at its first (device, scheduler) pair          *)
C18_Witness ==
    /\ err = "InvalidSettingError"
    /\ wi = 2
    /\ ds = 1
    /\ jobs # <<>>
    /\ tempOps > 0

----------------------------------------------------------------------------
(* The header of the output file *)

(* The names of the columns permutation sp supplies a value for *)
SuppliedBy(sp) == {SettingName(sp[i]) : i \in 1..Len(sp)}

(* A column of the frozen header that the arguments of call c supply no value for *)
MissingColumn(order, c) ==
    \E k \in 1..Len(order) :
        order[k] \notin (DOMAIN c.output \cup DOMAIN c.universal
                            \cup SuppliedBy(c.tsp) \cup SuppliedBy(c.esp))

C20_Original ==
    [][(wrote_header /\ calls' = calls + 1 /\ MissingColumn(header_order, call'))
          => err' = "OutputFormatError"]_vars

(* The part of C20 that holds: with both append flags set the call raises   *)
(* OutputFormatError, and with any setting of them it raises and writes no  *)
(* complete row.                                                            *)
C20_MissingColumnRaises ==
    [][(wrote_header /\ calls' = calls + 1 /\ MissingColumn(header_order, call')) =>
          /\ err' \in {"OutputFormatError", "TypeError"}
          /\ (cfg.output.append_template /\ cfg.output.append_environment)
                => err' = "OutputFormatError"
          /\ file'[Len(file')] = <<>> \/ file'[Len(file')][Len(file'[Len(file')])] # "END"]_vars

(* A token of the format that is in none of the tables and is no name of a  *)
(* parameter of either permutation of call c                                *)
MatchesNoRule(fi, c) ==
    fi \notin (DOMAIN FormatTranslation \cup DOMAIN UniversalTranslation
                  \cup LatPercentileTokens \cup ClatPercentileTokens
                  \cup SuppliedBy(c.tsp) \cup SuppliedBy(c.esp))

(* The call that resolves the header *)
FirstCall == ~wrote_header /\ calls' = calls + 1

(* C21 (as stated): while the header is resolved, a format token that       *)
(* matches none of the resolution rules raises OutputFormatError, for every *)
(* setting of append_template and append_environment.                       *)
C21_Original ==
    [][(FirstCall /\ \E k \in 1..Len(cfg.output.format) :
                        MatchesNoRule(cfg.output.format[k], call'))
          => err' = "OutputFormatError"]_vars

(* The part of C21 that holds: the call raises and leaves no header order,  *)
(* and with both append flags set it raises OutputFormatError.              *)
C21_UnmatchedTokenRaises ==
    [][(FirstCall /\ \E k \in 1..Len(cfg.output.format) :
                        MatchesNoRule(cfg.output.format[k], call')) =>
          /\ err' \in {"OutputFormatError", "TypeError"}
          /\ ~wrote_header'
          /\ (cfg.output.append_template /\ cfg.output.append_environment)
                => err' = "OutputFormatError"]_vars

(* C22 (as stated): header resolution accepts a format token that is a key  *)
(* of the first job's metric map and is in neither the short-code table nor *)
(* the universal tokens, and resolves it to that column.                    *)
C22_Original ==
    [][FirstCall =>
          \A k \in 1..Len(cfg.output.format) :
              LET fi == cfg.output.format[k]
              IN  (/\ fi \in DOMAIN call'.output
                   /\ fi \notin DOMAIN FormatTranslation
                   /\ fi \notin DOMAIN UniversalTranslation)
                     => /\ err' = "none"
                        /\ \E j \in 1..Len(header_order') : header_order'[j] = fi]_vars

(* C23 (as stated): the header line is the header order followed by END,    *)
(* and every complete row has as many fields as the header line, for every  *)
(* format, every metric map and every permutation.                          *)
C23_Original ==
    wrote_header =>
        /\ file[1] = header_order \o <<"END">>
        /\ \A i \in 1..Len(CompleteRows) : Len(CompleteRows[i]) = Len(file[1])

(* The part of C23 that holds: every complete row has one field for each    *)
(* column of the header order, then END.                                    *)
C23_RowsFollowHeaderOrder ==
    wrote_header =>
        \A i \in 1..Len(CompleteRows) :
            /\ Len(CompleteRows[i]) = Len(header_order) + 1
            /\ CompleteRows[i][Len(CompleteRows[i])] = "END"

(* C24: once a row is written no later process call, successful or failing, *)
(* removes or changes it: a call adds one line at the end of the file, a    *)
(* line that is complete stays as it is, and a call that succeeds adds one  *)
(* complete row.                                                            *)
C24_RowsAppendOnly ==
    [][(wrote_header /\ calls' = calls + 1) =>
          /\ Len(file') = Len(file) + 1
          /\ \A i \in 1..Len(file) :
                (file[i] # <<>> /\ file[i][Len(file[i])] = "END")
                    => file'[i] = file[i]
          /\ err' = "none" => Len(CompleteRows') = Len(CompleteRows) + 1]_vars

(* A call failed after two rows were completed, and both are in the file *)
C24_Witness ==
    /\ calls >= 3
    /\ err # "none"
    /\ Len(CompleteRows) >= 2
    /\ Len(file) = 4

(* '{:.2f}'.format(x) of a number with at most two fraction digits *)
TwoDecimals(v) ==
    ToString(v.whole) \o "."
        \o Digits(IF Len(v.frac) = 0 THEN <<0, 0>>
                  ELSE IF Len(v.frac) = 1 THEN v.frac \o <<0>>
                  ELSE SubSeq(v.frac, 1, 2))

(* C25 (as stated): in a row that is written, every numeric metric value    *)
(* has exactly two digits after the decimal point, and every other value    *)
(* is written in its natural string form.                                   *)
C25_Original ==
    [][(calls' = calls + 1 /\ err' = "none") =>
          LET row == file'[Len(file')]
          IN  \A k \in 1..Len(header_order') :
                  LET fi == header_order'[k]
                  IN  IF fi \in DOMAIN call'.output
                      THEN row[k] = TwoDecimals(call'.output[fi])
                      ELSE fi \in DOMAIN call'.universal
                              => row[k] = call'.universal[fi]]_vars

(* The part of C25 that holds: the values that are not metrics are written  *)
(* as they are, and a metric value is written as str() gives it.            *)
C25_NaturalStringForm ==
    [][(calls' = calls + 1 /\ err' = "none") =>
          LET row == file'[Len(file')]
          IN  \A k \in 1..Len(header_order') :
                  LET fi == header_order'[k]
                  IN  /\ (fi \notin DOMAIN call'.output /\ fi \in DOMAIN call'.universal)
                            => row[k] = call'.universal[fi]
                      /\ fi = "job-runtime" => row[k] = "1000"
                      /\ fi = "iops-read" => row[k] = "250.5"]_vars

----------------------------------------------------------------------------
(* execute *)

(* execute has left the for loop *)
ExecuteOver == epc \in {"returned", "raised"}

(* C26: no job of an input file runs unless Configuration.validate has      *)
(* returned for that input file first: process is called and devices are    *)
(* changed only for a file whose validate succeeded, a step that changes a  *)
(* device is a step of the file validated last, and a file whose validate   *)
(* raised has no device mutation.                                           *)
C26_ValidatedBeforeJobs ==
    [][/\ \A i \in 1..Len(log') :
            /\ (log'[i].process_called \/ log'[i].mutations > 0)
                  => log'[i].validate = "ok"
            /\ log'[i].validate = "InvalidSettingError"
                  => (log'[i].mutations = 0 /\ ~log'[i].process_called)
       /\ sysfs' # sysfs =>
            /\ log[input_i].validate = "ok"
            /\ configuration = input_i
            /\ log'[input_i].mutations = log[input_i].mutations + 1]_vars

(* The first input file failed validation and the second one ran jobs *)
C26_Witness ==
    /\ Len(log) = 2
    /\ log[1].validate = "InvalidSettingError"
    /\ log[1].mutations = 0
    /\ log[2].validate = "ok"
    /\ log[2].mutations > 0
    /\ sysfs["/dev/sdb"] # sysfs["/dev/sdc"]

(* What C27 says of a run in which an input file raised a classified error, *)
(* once execute is over: without continue_on_failure that error left        *)
(* execute and no later file was started; with it the error was logged and  *)
(* every input file was started, in the given order.                        *)
ClassifiedErrorHandled ==
    \A i \in 1..Len(log) :
        log[i].raised \in ClassifiedErrors =>
            IF ~continue_on_failure
            THEN /\ epc = "raised"
                 /\ exc = log[i].raised
                 /\ Len(log) = i
            ELSE /\ \E k \in 1..Len(logged) :
                        logged[k] = [input |-> args.inputs[i], err |-> log[i].raised]
                 /\ Len(log) = Len(args.inputs)
                 /\ \A k \in 1..Len(logged), m \in 1..Len(logged) :
                        (k < m) =>
                            \E a \in 1..Len(args.inputs), b \in 1..Len(args.inputs) :
                                /\ a < b
                                /\ logged[k].input = args.inputs[a]
                                /\ logged[m].input = args.inputs[b]

(* C27 (as stated): for every run of execute *)
C27_Original == ExecuteOver => ClassifiedErrorHandled

(* The part of C27 that holds: the runs without reset_device *)
C27_WithoutResetDevice ==
    (ExecuteOver /\ ~args.reset_device) => ClassifiedErrorHandled

(* C28 (as stated), second part: when reset_device is requested, the step   *)
(* that leaves the finally clause of an input file whose devices were saved *)
(* leaves every declared device with the scheduler and nomerges saved.      *)
C28_Original ==
    [][(epc = "finally" /\ epc' # "finally" /\ args.reset_device /\ log[input_i].saved)
          => \A d \in Range(DeclaredDevices) :
                /\ sysfs'[d].scheduler = device_environments[d].scheduler
                /\ sysfs'[d].nomerges = device_environments[d].nomerges]_vars

(* The part of C28 that holds (under SpecConfiguration): save, process,     *)
(* restore_device_environments leaves every declared device as saved,       *)
(* however process ended.                                                   *)
C28_RestoreReturnsSavedState ==
    epc = "restored" =>
        \A d \in Range(DeclaredDevices) :
            /\ sysfs[d].scheduler = device_environments[d].scheduler
            /\ sysfs[d].nomerges = device_environments[d].nomerges

----------------------------------------------------------------------------
(* The process registry *)

(* The pids of the entries of the registry *)
Tracked(procs) == {procs[i].pid : i \in 1..Len(procs)}

(* C29 (as stated): the signal handler sends a kill to the process group of *)
(* every subprocess in the registry, clears the registry and exits with a   *)
(* non-zero status: after the handler no child that was tracked is running. *)
C29_Original ==
    [][(exit_status = -1 /\ exit_status' # -1) =>
          /\ Tracked(PROCESSES) \subseteq killpg_sent'
          /\ PROCESSES' = <<>>
          /\ exit_status' > 0
          /\ Tracked(PROCESSES) \cap running' = {}]_vars

(* The part of C29 that holds: the handler clears the registry and exits    *)
(* with status 1.                                                           *)
C29_ClearsAndExits ==
    [][(exit_status = -1 /\ exit_status' # -1) =>
          /\ PROCESSES' = <<>>
          /\ exit_status' = 1]_vars

(* C30 (as stated): while the program runs, every child process that was    *)
(* launched and has not finished has an entry in ProcessManager.PROCESSES.  *)
C30_Original == (exit_status = -1) => running \subseteq Tracked(PROCESSES)

(* The part of C30 that holds: without tracing, and with tracing until an   *)
(* attempt of the first job fails.                                          *)
C30_TrackedUntilTracingFails ==
    (/\ exit_status = -1
     /\ \/ ~use_blktrace
        \/ (job_no = 1 /\ job_attempt = 1 /\ jpc \notin {"raised", "exceeded"}))
        => running \subseteq Tracked(PROCESSES)

(* C31 (as stated): the registry holds no entry for a process that has      *)
(* finished, and it is empty between two jobs, with or without tracing.     *)
C31_Original ==
    (exit_status = -1) =>
        /\ Tracked(PROCESSES) \subseteq running
        /\ jpc = "returned" => PROCESSES = <<>>

(* The part of C31 that holds: the jobs without tracing, whose children are *)
(* all started by run_command.                                              *)
C31_ClearedWithoutTracing ==
    (exit_status = -1 /\ ~use_blktrace) =>
        /\ Tracked(PROCESSES) \subseteq running
        /\ jpc \in {"start", "returned", "raised", "exceeded"} => PROCESSES = <<>>

----------------------------------------------------------------------------
(* Job.process *)

(* The steps of Job.process, with and without tracing *)
StepOrder(tracing) ==
    IF tracing
    THEN <<"change_scheduler", "clear_caches", "run_blktrace", "execute",
           "terminate", "blkparse", "btt">>
    ELSE <<"change_scheduler", "clear_caches", "execute">>

IsPrefix(p, q) == Len(p) <= Len(q) /\ SubSeq(q, 1, Len(p)) = p

(* The workload command of the job is running *)
WorkloadRunning == jpc = "execute" /\ fg # 0

(* C32: every job attempt, retries included, takes its steps in the fixed   *)
(* order change_scheduler, clear_caches, (with tracing) run_blktrace,       *)
(* execute, (with tracing) terminate and the trace analysis; whenever the   *)
(* workload command runs for a job (d, s), the scheduler in effect on d is  *)
(* s and the caches were cleared after it was set.                          *)
C32_FixedStepOrder ==
    /\ IsPrefix(attempt_steps, StepOrder(use_blktrace))
    /\ WorkloadRunning =>
          /\ kernel[job.device].scheduler = job.scheduler
          /\ kernel[job.device].cleared

(* The workload command runs in the retry of a traced second job *)
C32_Witness ==
    /\ WorkloadRunning
    /\ use_blktrace
    /\ job_no = 2
    /\ job_attempt = 2
    /\ job.scheduler # InitialScheduler
    /\ attempt_steps = <<"change_scheduler", "clear_caches", "run_blktrace", "execute">>

(* A command of this Job.process call has just given its output *)
OutputReturned == Len(outputs') = Len(outputs) + 1

(* C33 (as stated): a workload or trace subprocess that returns no output   *)
(* raises JobExecutionError, output that cannot be parsed raises            *)
(* OutputParsingError, and the workload command is executed at most once by *)
(* a Job.                                                                   *)
C33_Original ==
    [][/\ OutputReturned =>
            LET o == outputs'[Len(outputs')]
            IN  /\ o.out \in {"None", "empty"}
                     => (job_err' = "JobExecutionError" /\ jpc' \in {"except", "raised"})
                /\ o.out \in {"garbage", "not_object", "short_line"}
                     => (job_err' = "OutputParsingError" /\ jpc' \in {"except", "raised"})
       /\ Len(SelectSeq(attempt_steps', LAMBDA st : st = "execute")) <= 1]_vars

(* The part of C33 that holds: a command that could not be started raises   *)
(* JobExecutionError, output of the workload that is not JSON raises        *)
(* OutputParsingError, and a Job executes the workload command at most once *)
(* and starts nothing after a failure.                                      *)
C33_ClassifiedAndNotRetried ==
    [][/\ OutputReturned =>
            LET o == outputs'[Len(outputs')]
            IN  /\ o.out = "None" => job_err' = "JobExecutionError"
                /\ (o.command = "fio" /\ o.out \in {"empty", "garbage"})
                     => job_err' = "OutputParsingError"
       /\ Len(SelectSeq(attempt_steps', LAMBDA st : st = "execute")) <= 1
       /\ (job_err # "none" /\ attempt_steps' # attempt_steps)
            => attempt_steps' = <<"change_scheduler">>]_vars

----------------------------------------------------------------------------
(* validate on arbitrary setting tables *)

(* The settings that can become roots: the least set that holds every       *)
(* setting whose dependencies are all in it                                 *)
RECURSIVE Reachable(_, _)
Reachable(sec, acc) ==
    LET more == {k \in SettingNames(sec) \ acc : SettingTable(sec)[k].deps \subseteq acc}
    IN  IF more = {} THEN acc ELSE Reachable(sec, acc \cup more)

Stuck(sec) == SettingNames(sec) \ Reachable(sec, {})

(* The dependency graph is acyclic: every setting can become a root *)
Acyclic(sec) == Stuck(sec) = {}

NoDuplicates(q) == \A i \in 1..Len(q), j \in 1..Len(q) : q[i] = q[j] => i = j

(* C34: when the dependency graph of a section is acyclic, validate         *)
(* validates every declared setting exactly once: none is validated twice,  *)
(* a validate that returns has validated them all, and none is reported as  *)
(* left without its dependencies.                                           *)
C34_EachSettingOnce ==
    Acyclic(section) =>
        /\ NoDuplicates(visited)
        /\ vpc = "done" => Range(visited) = SettingNames(section)
        /\ verr.kind # "dependencies"

(* validate returned on the diamond, whose last setting waits for two others *)
C34_Witness ==
    /\ section = "diamond"
    /\ vpc = "done"
    /\ Len(visited) = 4
    /\ visited[4] = "t"

(* C35: when some settings can never become roots, validate first validates *)
(* all the settings that can and then raises one InvalidSettingError that   *)
(* lists exactly the settings left unvalidated; it does not return.         *)
C35_StuckSettingsReported ==
    /\ (vpc = "raised" /\ verr.kind = "dependencies") =>
          /\ Stuck(section) # {}
          /\ unvalidated = Stuck(section)
          /\ Range(visited) = SettingNames(section) \ Stuck(section)
          /\ NoDuplicates(visited)
          /\ roots = {}
    /\ Stuck(section) # {} =>
          /\ vpc # "done"
          /\ Range(visited) \cap Stuck(section) = {}
          /\ Stuck(section) \subseteq unvalidated

(* The error for the stuck settings q and r was raised after p and t were validated *)
C35_Witness ==
    /\ section = "stuck"
    /\ vpc = "raised"
    /\ verr.kind = "dependencies"
    /\ unvalidated = {"q", "r"}
    /\ Range(visited) = {"p", "t"}

(* C36: validate terminates for every setting table, cyclic or not: the     *)
(* loop makes at most as many iterations as there are settings, a setting   *)
(* that was taken from roots never enters it again, and validate returns or *)
(* raises.                                                                  *)
C36_Terminates ==
    /\ [](/\ Len(visited) <= Cardinality(SettingNames(section))
          /\ Range(visited) \cap roots = {})
    /\ <>(vpc \in {"done", "raised"})

(* The loop ran as many iterations as the table has settings *)
C36_Witness ==
    /\ section = "diamond"
    /\ vpc = "done"
    /\ roots = {}
    /\ Len(visited) = Cardinality(SettingNames(section))

----------------------------------------------------------------------------
(* Termination and the number of attempts of WorkloadConfiguration.process *)

(* The environment permutations a section declares: the product of the     *)
(* lists of the permutate settings that were set, one empty permutation    *)
(* when none was set.                                                       *)
DeclaredEnvPermutations(env) ==
    IF env.default_used THEN 1 ELSE Len(env.nomerges)

(* devices * schedulers * template permutations * environment permutations *)
(* * repetitions * retry_count for one process call of configuration c     *)
AttemptBound(c) ==
    Len(c.devices) * Len(c.schedulers) * Len(FilePermutations(c.template))
        * DeclaredEnvPermutations(c.environment) * c.repetitions * c.retry_count

(* The same with the permutations the environment generator yields *)
YieldedAttemptBound(c) ==
    Len(c.devices) * Len(c.schedulers) * Len(FilePermutations(c.template))
        * Len(EnvironmentPermutations(c.environment)) * c.repetitions * c.retry_count

(* The jobs the process call of workload w constructed: the attempts of the *)
(* jobs it started before the last one, each of which had one attempt at    *)
(* least, and the attempts of the last one.                                 *)
AttemptsAtLeast(w) ==
    LET started == {i \in 1..Len(jobs) : jobs[i].wi = w}
    IN  IF started = {} THEN 0
        ELSE Cardinality(started) - 1
                + (IF jobs[Len(jobs)].wi = w THEN attempts ELSE 1)

(* At most retry_count attempts for each started job *)
AttemptsAtMost(w) ==
    Cardinality({i \in 1..Len(jobs) : jobs[i].wi = w}) * cfg.retry_count

(* C37 (as stated): the attempts of one process call never exceed devices * *)
(* schedulers * template permutations * environment permutations *          *)
(* repetitions * retry_count, for a retry_count that is not negative.       *)
C37_Original ==
    cfg.retry_count >= 0 =>
        \A w \in 1..Len(cfg.workloads) : AttemptsAtLeast(w) <= AttemptBound(cfg)

(* The same bound with the number of permutations the environment          *)
(* generator yields in place of the number the section declares.           *)
C37_BoundOverYieldedPermutations ==
    cfg.retry_count >= 0 =>
        \A w \in 1..Len(cfg.workloads) : AttemptsAtMost(w) <= YieldedAttemptBound(cfg)

(* The position of a run in its loops: the counters from the outermost to   *)
(* the innermost loop, then the place in the body of the innermost loop     *)
(* that is running, a return to an outer loop counting as a later place.    *)
PhaseOrder == <<"start", "rep_next", "try", "output", "env_next", "tmpl_next",
                "ds_next", "wc_next", "done", "raised">>
Phase(p) == CHOOSE i \in 1..Len(PhaseOrder) : PhaseOrder[i] = p
Rank == <<wi, ds, ti, ei, rep, Phase(pc), retry>>

(* Every step of a run moves it to a later position, and the counters stay  *)
(* within the lengths of the lists they run over: a run makes finitely many *)
(* steps and ends in done or raised, the only positions without a step.     *)
C37_EveryStepAdvances ==
    [][/\ LexLess(Rank, Rank')
       /\ wi' <= Len(cfg.workloads)
       /\ ds' <= Len(DeviceSchedulerProduct(cfg))
       /\ ti' <= Len(FilePermutations(cfg.template))
       /\ ei' <= Len(EnvironmentPermutations(cfg.environment))
       /\ rep' <= cfg.repetitions
       /\ retry' <= (IF cfg.retry_count < 0 THEN 0 ELSE cfg.retry_count)
       /\ pc \notin {"done", "raised"}]_vars

----------------------------------------------------------------------------
(* The output file after a call that raised *)

(* Line l of the file is a whole line of a file whose header line is h: it  *)
(* holds as many fields as h and ends with the END sentinel.  A line        *)
(* _write_line wrote no field of is not in the file.                        *)
WholeLine(l, h) ==
    l = <<>> \/ (Len(l) = Len(h) /\ l[Len(l)] = "END")

(* C38 (as stated): when process raises OutputFormatError while it writes a *)
(* row, a column of the frozen header having no value, every line of the    *)
(* file ends with END and holds one field for each header column.           *)
C38_Original ==
    [][(wrote_header /\ calls' = calls + 1 /\ MissingColumn(header_order, call')
            /\ err' = "OutputFormatError") =>
          \A i \in 1..Len(file') : WholeLine(file'[i], file'[1])]_vars

(* The lines that were in the file before the call are left as they were *)
C38_EarlierLinesUntouched ==
    [][(wrote_header /\ calls' = calls + 1 /\ err' # "none") =>
          /\ Len(file') = Len(file) + 1
          /\ \A i \in 1..Len(file) : file'[i] = file[i]]_vars

----------------------------------------------------------------------------
(* _try_process with a retry_count that allows no attempt *)

(* C39: with retry_count <= 0 _try_process raises RetryCountExceededError   *)
(* at once: its step constructs and runs no job, changes no scheduler and   *)
(* writes no row, and the run has none of them at any time.                 *)
C39_NoAttemptWithoutRetries ==
    /\ [](cfg.retry_count <= 0 =>
            /\ jobs = <<>> /\ attempts = 0 /\ outcome = "none"
            /\ calls = 0 /\ file = <<>> /\ ~wrote_header
            /\ \A d \in DOMAIN dev : dev[d].scheduler = InitialScheduler)
    /\ [][(cfg.retry_count <= 0 /\ pc = "try") =>
            /\ pc' = "raised"
            /\ err' = "RetryCountExceededError"
            /\ UNCHANGED <<jobs, attempts, outcome, dev, file, calls, wrote_header>>]_vars

(* _try_process raised for the first job of a run with a negative retry_count *)
C39_Witness ==
    /\ cfg.retry_count = 0 - NegativeRetryCounts
    /\ pc = "raised"
    /\ err = "RetryCountExceededError"
    /\ rep = 0 /\ ei = 1
    /\ jobs = <<>>

====
